---------------------------- MODULE Spec2Model ----------------------------
(***************************************************************************)
(* Model of the mixing-and-mastering engine (backend/audio_engine).        *)
(*                                                                         *)
(* Numbers.  Sample amplitudes are fixed-point integers, 1000 = 1.0 full   *)
(* scale.  Levels in dB, LUFS and dBTP are integers in tenths of a dB      *)
(* (-3 = -0.3 dB).  10 ** (x / 20) and 20 * log10(x) are computed on that  *)
(* grid by DbToLin and LinToDb.                                            *)
(***************************************************************************)
EXTENDS Integers, Sequences, FiniteSets, TLC

VARIABLES mst, job, sc, cat, cls, det, bal, msk, rep, lod, stp, bus, api

vars == <<mst, job, sc, cat, cls, det, bal, msk, rep, lod, stp, bus, api>>

\* the state of the analysis components (genre detector, level balancer,
\* masking analyzer, mix report, stem loader), of the stem processor, of
\* the buses and of the job API, which the specifications of the other
\* components leave alone
analyzers == <<det, bal, msk, rep, lod, stp, bus, api>>

\* no analysis component has been constructed
AnalyzersIdle ==
    /\ det = 0 /\ bal = 0 /\ msk = 0 /\ rep = 0 /\ lod = 0
    /\ stp = 0 /\ bus = 0 /\ api = 0

(***************************************************************************)
(* Bounds of the model.                                                    *)
(***************************************************************************)
\* number of samples of an audio buffer
AudioLen == 8
\* sample rate of the model's buffers, in Hz (any positive rate is an input
\* of the engines: AudioPipeline._load_stems adopts the rate of the files)
SampleRate == 400

(***************************************************************************)
(* Fixed-point arithmetic.                                                 *)
(***************************************************************************)
One == 1000

Abs(x) == IF x < 0 THEN -x ELSE x

Max2(a, b) == IF a >= b THEN a ELSE b

Min2(a, b) == IF a <= b THEN a ELSE b

\* np.clip(x, lo, hi)
Clip(x, lo, hi) == IF x < lo THEN lo ELSE IF x > hi THEN hi ELSE x

\* x * g for a fixed-point factor g (1000 = 1.0), rounded toward zero
MulFix(x, g) == IF x >= 0 THEN (x * g) \div One ELSE -(((-x) * g) \div One)

\* 1000 * 10 ** (r / 200) for r = 0 .. 199: one decade in steps of 0.1 dB
Pow10Table ==
    << 1000, 1012, 1023, 1035, 1047, 1059, 1072, 1084, 1096, 1109,
       1122, 1135, 1148, 1161, 1175, 1189, 1202, 1216, 1230, 1245,
       1259, 1274, 1288, 1303, 1318, 1334, 1349, 1365, 1380, 1396,
       1413, 1429, 1445, 1462, 1479, 1496, 1514, 1531, 1549, 1567,
       1585, 1603, 1622, 1641, 1660, 1679, 1698, 1718, 1738, 1758,
       1778, 1799, 1820, 1841, 1862, 1884, 1905, 1928, 1950, 1972,
       1995, 2018, 2042, 2065, 2089, 2113, 2138, 2163, 2188, 2213,
       2239, 2265, 2291, 2317, 2344, 2371, 2399, 2427, 2455, 2483,
       2512, 2541, 2570, 2600, 2630, 2661, 2692, 2723, 2754, 2786,
       2818, 2851, 2884, 2917, 2951, 2985, 3020, 3055, 3090, 3126,
       3162, 3199, 3236, 3273, 3311, 3350, 3388, 3428, 3467, 3508,
       3548, 3589, 3631, 3673, 3715, 3758, 3802, 3846, 3890, 3936,
       3981, 4027, 4074, 4121, 4169, 4217, 4266, 4315, 4365, 4416,
       4467, 4519, 4571, 4624, 4677, 4732, 4786, 4842, 4898, 4955,
       5012, 5070, 5129, 5188, 5248, 5309, 5370, 5433, 5495, 5559,
       5623, 5689, 5754, 5821, 5888, 5957, 6026, 6095, 6166, 6237,
       6310, 6383, 6457, 6531, 6607, 6683, 6761, 6839, 6918, 6998,
       7079, 7161, 7244, 7328, 7413, 7499, 7586, 7674, 7762, 7852,
       7943, 8035, 8128, 8222, 8318, 8414, 8511, 8610, 8710, 8810,
       8913, 9016, 9120, 9226, 9333, 9441, 9550, 9661, 9772, 9886 >>

RECURSIVE Pow10(_)
Pow10(q) == IF q = 0 THEN 1 ELSE 10 * Pow10(q - 1)

\* the level the code substitutes for silence: 20 * log10(1e-10)
SilenceDb == -2000

\* 10 ** (db / 20), db in tenths of a dB, as a fixed-point factor
DbToLin(db) ==
    LET q == db \div 200
        r == db % 200
    IN  IF db <= -800 THEN 0
        ELSE IF q >= 0 THEN Pow10Table[r + 1] * Pow10(q)
        ELSE Pow10Table[r + 1] \div Pow10(-q)

RECURSIVE LinToDbSearch(_, _, _)
LinToDbSearch(x, lo, hi) ==
    IF lo >= hi THEN lo
    ELSE LET mid == (lo + hi) \div 2
         IN  IF DbToLin(mid) >= x THEN LinToDbSearch(x, lo, mid)
             ELSE LinToDbSearch(x, mid + 1, hi)

\* 20 * log10(max(x, 1e-10)) in tenths of a dB: the least level on the grid
\* whose amplitude is at least x
LinToDb(x) == IF x <= 0 THEN SilenceDb ELSE LinToDbSearch(x, -600, 400)

RECURSIVE ISqrtSearch(_, _, _)
ISqrtSearch(n, lo, hi) ==
    IF lo >= hi THEN lo
    ELSE LET mid == (lo + hi + 1) \div 2
         IN  IF mid * mid <= n THEN ISqrtSearch(n, mid, hi)
             ELSE ISqrtSearch(n, lo, mid - 1)

\* np.sqrt, rounded down
ISqrt(n) == ISqrtSearch(n, 0, 40000)

\* 1000000 * exp(-1 / n) for a time constant of n >= 1 samples
\* (the series 1 - 1/n + 1/2n^2 - 1/6n^3 + 1/24n^4 - 1/120n^5)
ExpCoef(n) ==
    LET t1 == 1000000 \div n
        t2 == t1 \div (2 * n)
        t3 == t2 \div (3 * n)
        t4 == t3 \div (4 * n)
        t5 == t4 \div (5 * n)
    IN  1000000 - t1 + t2 - t3 + t4 - t5

\* a * env + (1 - a) * x for a coefficient a in millionths
Smooth(a, env, x) == (a * env + (1000000 - a) * x) \div 1000000

\* int(ms * sample_rate / 1000), ms in tenths of a millisecond
MsToSamples(ms10) == (ms10 * SampleRate) \div 10000

(***************************************************************************)
(* Audio buffers: a stereo buffer is a record of two sample sequences of   *)
(* equal length.                                                           *)
(***************************************************************************)
RECURSIVE SeqMaxAbs(_)
SeqMaxAbs(s) == IF s = <<>> THEN 0 ELSE Max2(Abs(Head(s)), SeqMaxAbs(Tail(s)))

RECURSIVE SeqSumSq(_)
SeqSumSq(s) == IF s = <<>> THEN 0 ELSE Head(s) * Head(s) + SeqSumSq(Tail(s))

\* np.max(np.abs(audio))
Peak(a) == Max2(SeqMaxAbs(a.L), SeqMaxAbs(a.R))

\* np.sqrt(np.mean(audio ** 2)) over both channels
Rms(a) == ISqrt((SeqSumSq(a.L) + SeqSumSq(a.R)) \div (2 * Len(a.L)))

\* audio * gain_linear
ScaleSeq(s, g) == [i \in 1..Len(s) |-> MulFix(s[i], g)]

Scale(a, g) == [L |-> ScaleSeq(a.L, g), R |-> ScaleSeq(a.R, g)]

\* audio * gain with one gain per sample
ApplyGain(a, g) ==
    [L |-> [i \in 1..Len(a.L) |-> MulFix(a.L[i], g[i])],
     R |-> [i \in 1..Len(a.R) |-> MulFix(a.R[i], g[i])]]

\* np.clip(audio, -ceiling, ceiling)
HardClip(a, c) ==
    [L |-> [i \in 1..Len(a.L) |-> Clip(a.L[i], -c, c)],
     R |-> [i \in 1..Len(a.R) |-> Clip(a.R[i], -c, c)]]

\* np.maximum(np.abs(audio[0]), np.abs(audio[1]))
PeakSignal(a) == [i \in 1..Len(a.L) |-> Max2(Abs(a.L[i]), Abs(a.R[i]))]

(***************************************************************************)
(* Preset catalogs.                                                        *)
(***************************************************************************)
\* GenrePresets.MIXING_PRESETS keys, in order (GenrePresets.list_genres)
Genres == <<"house", "techno", "edm", "hiphop", "pop", "rock", "rnb",
            "acoustic", "metal">>

GenreSet == {Genres[i] : i \in 1..Len(Genres)}

\* GenrePresets.MASTERING_PRESETS: target_lufs, ceiling_dbTP, limiter ceiling
\* and release (ms), stereo_width; every preset has eq, multiband, saturation
MASTERING_PRESETS ==
    [g \in GenreSet |->
        CASE g = "house"    -> [target_lufs |-> -90,  ceiling_dbTP |-> -5,
                                release |-> 80,  stereo_width |-> 120]
          [] g = "techno"   -> [target_lufs |-> -80,  ceiling_dbTP |-> -3,
                                release |-> 50,  stereo_width |-> 125]
          [] g = "edm"      -> [target_lufs |-> -80,  ceiling_dbTP |-> -5,
                                release |-> 50,  stereo_width |-> 130]
          [] g = "hiphop"   -> [target_lufs |-> -100, ceiling_dbTP |-> -5,
                                release |-> 80,  stereo_width |-> 115]
          [] g = "pop"      -> [target_lufs |-> -100, ceiling_dbTP |-> -10,
                                release |-> 100, stereo_width |-> 120]
          [] g = "rock"     -> [target_lufs |-> -120, ceiling_dbTP |-> -10,
                                release |-> 150, stereo_width |-> 110]
          [] g = "rnb"      -> [target_lufs |-> -120, ceiling_dbTP |-> -10,
                                release |-> 150, stereo_width |-> 110]
          [] g = "acoustic" -> [target_lufs |-> -140, ceiling_dbTP |-> -15,
                                release |-> 200, stereo_width |-> 105]
          [] g = "metal"    -> [target_lufs |-> -80,  ceiling_dbTP |-> -3,
                                release |-> 40,  stereo_width |-> 115]]

\* GenrePresets.get_mastering_preset: an unknown genre gets the pop preset
get_mastering_preset(genre) ==
    IF genre \in GenreSet THEN MASTERING_PRESETS[genre]
    ELSE MASTERING_PRESETS["pop"]

\* SimpleMasteringEngine.PLATFORM_PRESETS
Platforms == {"spotify", "apple_music", "youtube", "soundcloud", "club",
              "dynamic", "default"}

PLATFORM_PRESETS ==
    [p \in Platforms |->
        CASE p = "apple_music" -> [lufs |-> -160, ceiling |-> -10]
          [] p = "club"        -> [lufs |-> -90,  ceiling |-> -3]
          [] p = "dynamic"     -> [lufs |-> -180, ceiling |-> -10]
          [] OTHER             -> [lufs |-> -140, ceiling |-> -10]]

\* settings.TRUE_PEAK_CEILING_DBTP, the ceiling process_audio_job passes
TRUE_PEAK_CEILING_DBTP == -10

(***************************************************************************)
(* SimpleMasteringEngine (masterer/simple_master.py).                      *)
(***************************************************************************)
\* _measure_lufs: 20 * log10(max(rms, 1e-10)) - 0.5
SimpleMeasureLufs(a) == LinToDb(Rms(a)) - 5

RECURSIVE EnvelopeFrom(_, _, _, _)
\* the envelope loop of _transparent_limiter and of _limit: the envelope
\* values after each sample of peaks, starting from env
EnvelopeFrom(peaks, env, attack_coef, release_coef) ==
    IF peaks = <<>> THEN <<>>
    ELSE LET peak == Head(peaks)
             e == IF peak > env THEN Smooth(attack_coef, env, peak)
                  ELSE Smooth(release_coef, env, peak)
         IN  <<e>> \o EnvelopeFrom(Tail(peaks), e, attack_coef, release_coef)

\* envelope[lookahead:] followed by lookahead copies of envelope[-1]
\* (buffers are at least as long as the lookahead)
LookaheadShift(envelope, lookahead_samples) ==
    IF lookahead_samples > 0
    THEN [i \in 1..Len(envelope) |->
             IF i + lookahead_samples <= Len(envelope)
             THEN envelope[i + lookahead_samples]
             ELSE envelope[Len(envelope)]]
    ELSE envelope

RECURSIVE WindowSum(_, _, _)
WindowSum(g, lo, hi) ==
    IF lo > hi THEN 0
    ELSE (IF lo >= 1 /\ lo <= Len(g) THEN g[lo] ELSE 0) + WindowSum(g, lo + 1, hi)

\* np.convolve(gain, np.ones(k) / k, mode='same'), applied when k > 1
MovingAverage(g, k) ==
    IF k > 1
    THEN [i \in 1..Len(g) |->
             WindowSum(g, i + (k - 1) \div 2 - (k - 1), i + (k - 1) \div 2) \div k]
    ELSE g

\* the gain of _transparent_limiter before it is applied
TransparentGain(a, ceiling) ==
    LET attack_coef == ExpCoef(MsToSamples(50))
        release_coef == ExpCoef(MsToSamples(1000))
        envelope == LookaheadShift(
                        EnvelopeFrom(PeakSignal(a), 0, attack_coef, release_coef),
                        MsToSamples(50))
        gain == [i \in 1..Len(envelope) |->
                    IF envelope[i] > ceiling
                    THEN (ceiling * One) \div envelope[i] ELSE One]
    IN  MovingAverage(gain, MsToSamples(10))

\* the tail of _transparent_limiter: the final safety clip
FinalSafetyClip(a, ceiling) == HardClip(a, ceiling)

\* SimpleMasteringEngine._transparent_limiter
TransparentLimiter(a, ceiling) ==
    FinalSafetyClip(ApplyGain(a, TransparentGain(a, ceiling)), ceiling)

\* the gain SimpleMasteringEngine.master applies, in tenths of a dB
SimpleGainDb(a, platform) ==
    Clip(PLATFORM_PRESETS[platform].lufs - SimpleMeasureLufs(a), -120, 180)

\* SimpleMasteringEngine.master: the result record (audio is already stereo)
SimpleMaster(a, platform) ==
    LET ceiling_linear == DbToLin(PLATFORM_PRESETS[platform].ceiling)
        gain_db == SimpleGainDb(a, platform)
        out == TransparentLimiter(Scale(a, DbToLin(gain_db)), ceiling_linear)
    IN  [audio |-> out,
         output_lufs |-> SimpleMeasureLufs(out),
         output_peak |-> LinToDb(Peak(out)),
         gain_applied |-> gain_db,
         platform |-> platform]

(***************************************************************************)
(* Audio inputs of the model: a buffer with one spike over a constant      *)
(* floor, on two channels related by a fixed ratio.                        *)
(***************************************************************************)
SpikeLevels == {900, -400, 150}

FloorLevels == {0, 40, -120}

\* right = left * ratio / 1000: dual mono, one silent channel, inverted half
ChannelRatios == {1000, 0, -500}

SpikeSeq(pos, a, b) == [i \in 1..AudioLen |-> IF i = pos THEN a ELSE b]

AudioSet ==
    {[L |-> SpikeSeq(pos, a, b), R |-> ScaleSeq(SpikeSeq(pos, a, b), r)] :
        pos \in {1, AudioLen \div 2, AudioLen}, a \in SpikeLevels,
        b \in FloorLevels, r \in ChannelRatios}

\* the value of a buffer field before a stage has produced it
NoAudio == [L |-> <<>>, R |-> <<>>]

(***************************************************************************)
(* LoudnessAnalyzer (analyzer/loudness.py).                                *)
(***************************************************************************)
\* pyloudnorm's integrated loudness of a steady wideband buffer:
\* -0.691 + 10 * log10(sum over channels of the mean square)
IntegratedLoudness(a) ==
    LinToDb(ISqrt((SeqSumSq(a.L) + SeqSumSq(a.R)) \div Len(a.L))) - 7

\* LoudnessAnalyzer.normalize_to_lufs; measurable is whether the meter
\* returned a value (it raises on a buffer shorter than its block size)
NormalizeToLufs(a, target_lufs, measurable) ==
    IF ~measurable THEN a
    ELSE LET normalized == Scale(a, DbToLin(target_lufs - IntegratedLoudness(a)))
             peak == Peak(normalized)
         IN  IF peak > 990 THEN Scale(normalized, (990 * One) \div peak)
             ELSE normalized

(***************************************************************************)
(* ProLimiter (masterer/pro_limiter.py).                                   *)
(***************************************************************************)
RECURSIVE SmoothedFrom(_, _, _)
\* the release loop of _calculate_gain_reduction after the first sample:
\* instant attack, smoothed release
SmoothedFrom(gain_reduction, prev, release_coef) ==
    IF gain_reduction = <<>> THEN <<>>
    ELSE LET g == Head(gain_reduction)
             sm == IF g < prev THEN g ELSE Smooth(release_coef, prev, g)
         IN  <<sm>> \o SmoothedFrom(Tail(gain_reduction), sm, release_coef)

\* ProLimiter._calculate_gain_reduction on the peak envelope of the buffer
CalculateGainReduction(peak_envelope, threshold, ceiling, release_samples) ==
    LET gain_reduction == [i \in 1..Len(peak_envelope) |->
                              IF peak_envelope[i] > threshold
                              THEN (ceiling * One) \div peak_envelope[i]
                              ELSE One]
    IN  <<gain_reduction[1]>> \o
        SmoothedFrom(Tail(gain_reduction), gain_reduction[1],
                     ExpCoef(release_samples))

\* np.pad(audio, ((0, 0), (n, 0)), mode='edge') on one channel
PadEdge(s, n) == [i \in 1..(Len(s) + n) |-> IF i <= n THEN s[1] ELSE s[i - n]]

\* ProLimiter.process on a stereo buffer: padded gain reduction, then the
\* final safety clipper
LimiterProcess(a, ceiling_db, threshold_db, release_samples) ==
    LET ceiling_linear == DbToLin(ceiling_db)
        lookahead_samples == MsToSamples(50)
        buffered == [L |-> PadEdge(a.L, lookahead_samples),
                     R |-> PadEdge(a.R, lookahead_samples)]
        gain_reduction == CalculateGainReduction(PeakSignal(buffered),
                              DbToLin(threshold_db), ceiling_linear,
                              release_samples)
        limited == ApplyGain(buffered, gain_reduction)
        cut == [L |-> SubSeq(limited.L, lookahead_samples + 1, Len(limited.L)),
                R |-> SubSeq(limited.R, lookahead_samples + 1, Len(limited.R))]
    IN  HardClip(cut, ceiling_linear)

\* int(release_ms / (i + 1) * sample_rate / 1000) for stage i
ReleaseSamples(release_ms, i) == (release_ms * SampleRate) \div (1000 * (i + 1))

\* np.linspace(-6.0, ceiling_db, 3), to the tenth of a dB
StageCeilings(ceiling_db) == <<-60, (ceiling_db - 60) \div 2, ceiling_db>>

RECURSIVE MultiStageFrom(_, _, _, _)
MultiStageFrom(a, ceilings, release_ms, i) ==
    IF i >= Len(ceilings) THEN a
    ELSE MultiStageFrom(
             LimiterProcess(a, ceilings[i + 1], ceilings[i + 1] - 30,
                            ReleaseSamples(release_ms, i)),
             ceilings, release_ms, i + 1)

\* ProLimiter.multi_stage_limit with stages=3
MultiStageLimit(a, ceiling_db, release_ms) ==
    MultiStageFrom(a, StageCeilings(ceiling_db), release_ms, 0)

(***************************************************************************)
(* OzoneStyleMasteringEngine (masterer/ozone_engine.py): the loudness and  *)
(* limiting end of the chain.                                              *)
(***************************************************************************)
\* tanh of x / 1000, in thousandths, for x >= 0
Tanh(x) ==
    IF x >= 3000 THEN One
    ELSE LET e2x == DbToLin((1737 * x) \div 10000)
         IN  (One * (e2x - One)) \div (e2x + One)

\* one sample of _true_peak_limit: the tanh knee above 90% of the ceiling
SoftClipSample(sample, ceiling) ==
    LET threshold == (ceiling * 9) \div 10
        excess == ((Abs(sample) - threshold) * One) \div (One - threshold + 10)
        soft_gain == threshold +
                     ((ceiling - threshold) * Tanh((excess * 3) \div 2))
                         \div Tanh(1500)
    IN  IF Abs(sample) > threshold
        THEN (IF sample >= 0 THEN 1 ELSE -1) * Min2(soft_gain, ceiling)
        ELSE sample

\* OzoneStyleMasteringEngine._true_peak_limit
TruePeakLimit(a, ceiling) ==
    HardClip([L |-> [i \in 1..Len(a.L) |-> SoftClipSample(a.L[i], ceiling)],
              R |-> [i \in 1..Len(a.R) |-> SoftClipSample(a.R[i], ceiling)]],
             ceiling)

\* OzoneStyleMasteringEngine._limit
OzoneLimit(a, ceiling, character) ==
    LET attack_samples == Max2(MsToSamples(1 + character), 1)
        release_samples == Max2(MsToSamples(200 + 150 * character), 1)
        envelope == EnvelopeFrom(PeakSignal(a), 0, ExpCoef(attack_samples),
                                 ExpCoef(release_samples))
        gain == [i \in 1..Len(envelope) |->
                    IF envelope[i] > ceiling
                    THEN (ceiling * One) \div envelope[i] ELSE One]
    IN  ApplyGain(a, gain)

\* the maximizer settings of the default preset of master
DefaultMaximizer == [ceiling |-> -3, character |-> 5, gain |-> 0, stages |-> 2]

\* stage_ceiling of apply_maximizer for stage = 0 .. stages - 1:
\* ceiling * (1.0 + 0.02 * (stages - 1 - stage))
MaximizerCeilings(ceiling, stages) ==
    [k \in 1..stages |-> (ceiling * (100 + 2 * (stages - k))) \div 100]

RECURSIVE MaximizerStages(_, _, _, _)
MaximizerStages(a, ceiling, settings, stage) ==
    IF stage >= settings.stages THEN a
    ELSE MaximizerStages(
             OzoneLimit(a, MaximizerCeilings(ceiling,
                                             settings.stages)[stage + 1],
                        settings.character),
             ceiling, settings, stage + 1)

\* OzoneStyleMasteringEngine.apply_maximizer
ApplyMaximizer(a, settings) ==
    LET ceiling == DbToLin(settings.ceiling)
        boosted == IF settings.gain > 0 THEN Scale(a, DbToLin(settings.gain))
                   ELSE a
    IN  HardClip(TruePeakLimit(MaximizerStages(boosted, ceiling, settings, 0),
                               ceiling), ceiling)

\* measure_loudness: the RMS of the weighted buffer, -0.691
OzoneMeasureLufs(a) == LinToDb(Rms(a)) - 7

\* OzoneStyleMasteringEngine.normalize_to_lufs
OzoneNormalize(a, target_lufs) ==
    Scale(a, DbToLin(Clip(target_lufs - OzoneMeasureLufs(a), -200, 240)))

RECURSIVE ReduceToCeiling(_, _, _)
\* the loop of ensure_true_peak_ceiling
ReduceToCeiling(a, ceiling_db, iterations) ==
    IF iterations = 0 \/ LinToDb(Peak(a)) <= ceiling_db + 1 THEN a
    ELSE ReduceToCeiling(
             Scale(a, DbToLin(-(LinToDb(Peak(a)) - ceiling_db + 3))),
             ceiling_db, iterations - 1)

\* OzoneStyleMasteringEngine.ensure_true_peak_ceiling
EnsureTruePeakCeiling(a, ceiling) ==
    HardClip(ReduceToCeiling(a, LinToDb(ceiling), 3), ceiling)

(***************************************************************************)
(* The three mastering chains, step by step.  mst.ops is the list of the   *)
(* operations applied to the audio so far.                                 *)
(***************************************************************************)
\* the level changes that stand for a tone-shaping step (EQ, multiband,
\* saturation, width): about -1 dB and +1 dB
ColourGains == {891, 1122}

\* what an inter-sample peak adds to the sample peak, in tenths of a dB
Overshoots == {0, 4}

\* LoudnessAnalyzer._calculate_true_peak: the 4x oversampled peak
TruePeakDb(a, overshoot) == LinToDb(Peak(a)) + overshoot

\* the targets a caller of the chains asks for without a genre preset
PlainTargets == {-140, -90}

NewMaster(engine, a, target_lufs, ceiling_db, release_ms, preset) ==
    [engine |-> engine, pc |-> "start", audio |-> a,
     target_lufs |-> target_lufs, ceiling_db |-> ceiling_db,
     release_ms |-> release_ms, preset |-> preset, ops |-> <<>>,
     iter |-> 0, error |-> "none"]

\* SimpleMasteringEngine.master up to the limiter: the clipped gain
SimpleGain ==
    /\ mst.engine = "simple" /\ mst.pc = "start"
    /\ mst' = [mst EXCEPT !.pc = "limit",
                  !.audio = Scale(mst.audio,
                                  DbToLin(SimpleGainDb(mst.audio, mst.preset))),
                  !.ops = Append(@, "gain")]
    /\ UNCHANGED <<job, sc, cat, cls, analyzers>>

\* SimpleMasteringEngine._transparent_limiter and the return
SimpleLimit ==
    /\ mst.engine = "simple" /\ mst.pc = "limit"
    /\ mst' = [mst EXCEPT !.pc = "done",
                  !.audio = TransparentLimiter(mst.audio, DbToLin(mst.ceiling_db)),
                  !.ops = @ \o <<"gain_reduction", "hard_clip">>]
    /\ UNCHANGED <<job, sc, cat, cls, analyzers>>

\* the tone-shaping steps of MasteringEngine.master in order, and whether
\* the call of each sits inside a try/except
ProSteps == <<"eq", "multiband", "saturation", "width">>

ProCaught(step) == step = "multiband"

\* steps 1 to 4 of MasteringEngine.master, one at a time: a step that
\* raises is skipped when caught and ends the call otherwise
ProShape ==
    /\ mst.engine = "pro" /\ mst.pc = "start" /\ mst.iter < Len(ProSteps)
    /\ \E raises \in BOOLEAN, g \in ColourGains :
          LET step == ProSteps[mst.iter + 1]
              next == IF mst.iter + 1 = Len(ProSteps)
                      THEN [mst EXCEPT !.pc = "normalize", !.iter = 0]
                      ELSE [mst EXCEPT !.iter = @ + 1]
          IN  mst' = IF raises /\ ~ProCaught(step)
                     THEN [mst EXCEPT !.pc = "failed", !.error = step]
                     ELSE IF raises THEN next
                     ELSE [next EXCEPT !.audio = Scale(mst.audio, g),
                                       !.ops = Append(@, step)]
    /\ UNCHANGED <<job, sc, cat, cls, analyzers>>

\* step 5: normalize_to_lufs(audio, target_lufs + 2)
ProNormalize ==
    /\ mst.engine = "pro" /\ mst.pc = "normalize"
    /\ mst' = [mst EXCEPT !.pc = "limit",
                  !.audio = NormalizeToLufs(mst.audio, mst.target_lufs + 20, TRUE),
                  !.ops = Append(@, "gain")]
    /\ UNCHANGED <<job, sc, cat, cls, analyzers>>

\* step 6: multi_stage_limit, each stage ending with its safety clipper
ProLimit ==
    /\ mst.engine = "pro" /\ mst.pc = "limit"
    /\ mst' = [mst EXCEPT !.pc = "match",
                  !.audio = MultiStageLimit(mst.audio, mst.ceiling_db,
                                            mst.release_ms),
                  !.ops = @ \o <<"gain_reduction", "hard_clip">>]
    /\ UNCHANGED <<job, sc, cat, cls, analyzers>>

\* step 7, one iteration of _final_loudness_match, or its end and the
\* return of master
ProMatch ==
    /\ mst.engine = "pro" /\ mst.pc = "match"
    /\ \E overshoot \in Overshoots :
          LET lufs_delta == mst.target_lufs - IntegratedLoudness(mst.audio)
              gained == Scale(mst.audio, DbToLin((7 * lufs_delta) \div 10))
              relimit == TruePeakDb(mst.audio, overshoot) > mst.ceiling_db
          IN  mst' = IF mst.iter = 3 \/ Abs(lufs_delta) < 5
                     THEN [mst EXCEPT !.pc = "done"]
                     ELSE IF relimit
                     THEN [mst EXCEPT !.iter = @ + 1,
                              !.audio = LimiterProcess(gained, mst.ceiling_db, -20,
                                            ReleaseSamples(150, 0)),
                              !.ops = @ \o <<"gain", "gain_reduction", "hard_clip">>]
                     ELSE [mst EXCEPT !.iter = @ + 1, !.audio = gained,
                              !.ops = Append(@, "gain")]
    /\ UNCHANGED <<job, sc, cat, cls, analyzers>>

\* OzoneStyleMasteringEngine.master, steps 1 to 4.5: the tone-shaping
\* modules (apply_eq skips a band that raises)
OzoneShape ==
    /\ mst.engine = "ozone" /\ mst.pc = "start"
    /\ \E g \in ColourGains :
          mst' = [mst EXCEPT !.pc = "normalize", !.audio = Scale(mst.audio, g),
                     !.ops = Append(@, "eq")]
    /\ UNCHANGED <<job, sc, cat, cls, analyzers>>

\* step 5: normalize_to_lufs(audio, target_lufs + 1)
OzoneNormalizeStep ==
    /\ mst.engine = "ozone" /\ mst.pc = "normalize"
    /\ mst' = [mst EXCEPT !.pc = "limit",
                  !.audio = OzoneNormalize(mst.audio, mst.target_lufs + 10),
                  !.ops = Append(@, "gain")]
    /\ UNCHANGED <<job, sc, cat, cls, analyzers>>

\* step 6: apply_maximizer
OzoneMaximize ==
    /\ mst.engine = "ozone" /\ mst.pc = "limit"
    /\ mst' = [mst EXCEPT !.pc = "ensure",
                  !.audio = ApplyMaximizer(mst.audio, DefaultMaximizer),
                  !.ops = @ \o <<"gain_reduction", "soft_clip", "hard_clip">>]
    /\ UNCHANGED <<job, sc, cat, cls, analyzers>>

\* step 7 and the return: ensure_true_peak_ceiling
OzoneEnsure ==
    /\ mst.engine = "ozone" /\ mst.pc = "ensure"
    /\ mst' = [mst EXCEPT !.pc = "done",
                  !.audio = EnsureTruePeakCeiling(mst.audio, DbToLin(mst.ceiling_db)),
                  !.ops = @ \o (IF LinToDb(Peak(mst.audio)) >
                                     LinToDb(DbToLin(mst.ceiling_db)) + 1
                                THEN <<"gain", "hard_clip">>
                                ELSE <<"hard_clip">>)]
    /\ UNCHANGED <<job, sc, cat, cls, analyzers>>

InitMaster ==
    /\ \E a \in AudioSet :
          \/ \E p \in Platforms :
                mst = NewMaster("simple", a, PLATFORM_PRESETS[p].lufs,
                                PLATFORM_PRESETS[p].ceiling, 1000, p)
          \/ \E g \in GenreSet :
                mst = NewMaster("pro", a, MASTERING_PRESETS[g].target_lufs,
                                MASTERING_PRESETS[g].ceiling_dbTP,
                                MASTERING_PRESETS[g].release, g)
          \/ \E t \in PlainTargets :
                mst = NewMaster("pro", a, t, TRUE_PEAK_CEILING_DBTP, 100, "none")
          \/ \E t \in PlainTargets :
                mst = NewMaster("ozone", a, t, DefaultMaximizer.ceiling, 0, "none")
    /\ job = 0 /\ sc = 0 /\ cat = 0 /\ cls = 0 /\ AnalyzersIdle

NextMaster ==
    \/ SimpleGain
    \/ SimpleLimit
    \/ ProShape
    \/ ProNormalize
    \/ ProLimit
    \/ ProMatch
    \/ OzoneShape
    \/ OzoneNormalizeStep
    \/ OzoneMaximize
    \/ OzoneEnsure

SpecMaster == InitMaster /\ [][NextMaster]_vars

\* the ceilings of the stages of the multi-stage limiter of a chain whose
\* limiter has run, in stage order, and the ceiling that was requested;
\* dB for the pro chain, amplitude for the ozone chain
LimiterStages ==
    IF mst.engine = "pro"
    THEN [ceilings |-> StageCeilings(mst.ceiling_db),
          requested |-> mst.ceiling_db]
    ELSE [ceilings |-> MaximizerCeilings(DbToLin(DefaultMaximizer.ceiling),
                                         DefaultMaximizer.stages),
          requested |-> DbToLin(DefaultMaximizer.ceiling)]

\* the multi-stage limiter of the chain has run
MultiStageLimited ==
    \/ mst.engine = "pro" /\ mst.pc \in {"match", "done"}
    \/ mst.engine = "ozone" /\ mst.pc \in {"ensure", "done"}

\* C20: in every multi-stage limiter each stage's ceiling is no higher than
\* that of the stage before it, and the last stage's ceiling is the
\* requested ceiling
C20_StageCeilingsTighten ==
    MultiStageLimited =>
        /\ \A i \in 1..(Len(LimiterStages.ceilings) - 1) :
              LimiterStages.ceilings[i + 1] <= LimiterStages.ceilings[i]
        /\ LimiterStages.ceilings[Len(LimiterStages.ceilings)]
              = LimiterStages.requested

\* C2: in every chain the last operation applied to the audio a finished
\* run returns is the hard clip to the ceiling
C2_LastOperationIsHardClip ==
    mst.pc = "done" => (mst.ops # <<>> /\ mst.ops[Len(mst.ops)] = "hard_clip")

(***************************************************************************)
(* AudioPipeline.process (pipeline.py), reached directly or through        *)
(* upload_stems and process_audio_job.                                     *)
(***************************************************************************)
\* largest number of stem files of a job
MaxStems == 2

\* genre overrides a caller can send: none, a catalog id, or another string
OverrideChoices == {"none", "jazz"} \cup GenreSet

\* GenreDetector.GENRE_PROFILES keys: what the analysis detector can return
DetectorGenres == GenreSet \ {"metal"}

\* the steps of MixEngine.mix that shape the sound, in call order
MixStages == <<"masking", "balance", "stem_fx", "sidechain", "bus_fx",
               "master_bus">>

MixStageSet == {MixStages[i] : i \in 1..Len(MixStages)}

\* the enhancement steps met on a pipeline run
OptionalStages == MixStageSet \cup {"ai_genre"}

\* whether the call site of a step sits inside a try/except that skips it:
\* AIGenreDetector.detect_genre wraps the model; MixEngine.mix wraps nothing
Caught(stage) == stage = "ai_genre"

NoMaster == [audio |-> NoAudio, output_lufs |-> 0, output_peak |-> 0,
             gain_applied |-> 0, platform |-> "none"]

NewJob(via, n, override) ==
    [pc |-> IF via = "api" THEN "new" ELSE "load",
     via |-> via, n_stems |-> n, override |-> override,
     ceiling_given |-> TRUE_PEAK_CEILING_DBTP,
     genre |-> "none", target_lufs |-> 0, ceiling_dbTP |-> 0,
     platform |-> "none", mix |-> NoAudio, master |-> NoMaster,
     files |-> {}, progress |-> -1, success |-> FALSE, error |-> "none"]

\* the platform AudioPipeline.process derives from the genre target
PlatformFor(genre_target_lufs) ==
    IF genre_target_lufs <= -160 THEN "apple_music"
    ELSE IF genre_target_lufs >= -100 THEN "club"
    ELSE "spotify"

\* an exception leaves process: process_audio_job reports the job as failed
Fail(j, why) == [j EXCEPT !.pc = "failed", !.error = why]

\* upload_stems: an override outside list_genres() is refused with HTTP 400,
\* otherwise the job is queued with the override
UploadStems ==
    /\ job.pc = "new"
    /\ job' = IF job.override # "none" /\ job.override \notin GenreSet
              THEN [job EXCEPT !.pc = "rejected", !.error = "invalid_genre"]
              ELSE [job EXCEPT !.pc = "load"]
    /\ UNCHANGED <<mst, sc, cat, cls, analyzers>>

\* stage 1, _load_stems: a file that cannot be read raises
LoadStems ==
    /\ job.pc = "load"
    /\ \E readable \in BOOLEAN :
          job' = IF job.n_stems > 0 /\ ~readable
                 THEN Fail([job EXCEPT !.progress = 0], "load")
                 ELSE [job EXCEPT !.pc = "genre", !.progress = 0]
    /\ UNCHANGED <<mst, sc, cat, cls, analyzers>>

\* the presets and targets process resolves once the genre is known
WithGenre(j, g) ==
    [j EXCEPT !.pc = "mix", !.progress = 10, !.genre = g,
              !.target_lufs = get_mastering_preset(g).target_lufs,
              !.ceiling_dbTP = get_mastering_preset(g).ceiling_dbTP]

\* stage 2: a valid override is used; anything else is auto-detected: the
\* AI model answers "edm" or fails and is replaced by the analysis detector,
\* which raises on a rough mix too short to frame (the one-sample rough mix
\* of an empty stem set always is)
DetectGenre ==
    /\ job.pc = "genre"
    /\ IF job.override # "none" /\ job.override \in GenreSet
       THEN job' = WithGenre(job, job.override)
       ELSE \E ai_ok \in BOOLEAN, long_enough \in BOOLEAN, g \in DetectorGenres :
               job' = IF ai_ok THEN WithGenre(job, "edm")
                      ELSE IF job.n_stems = 0 \/ ~long_enough
                      THEN Fail([job EXCEPT !.progress = 10], "genre_analysis")
                      ELSE WithGenre(job, g)
    /\ UNCHANGED <<mst, sc, cat, cls, analyzers>>

\* MixEngine.mix if _align_stems accepted an empty stem set
MixOutcomeEmptyAccepted(n_stems, raised) ==
    IF raised \in MixStageSet /\ ~Caught(raised) THEN raised ELSE "ok"

\* MixEngine.mix: "empty" when _align_stems takes max() of no stems, the
\* name of the step that raised when one does, "ok" otherwise
MixOutcome(n_stems, raised) ==
    IF n_stems = 0 THEN "empty"
    ELSE IF raised \in MixStageSet /\ ~Caught(raised) THEN raised
    ELSE "ok"

\* stage 3: the mix ends with normalize_to_lufs to the genre target
Mix ==
    /\ job.pc = "mix"
    /\ \E raised \in {"none"} \cup MixStageSet, raw \in AudioSet,
          measurable \in BOOLEAN :
          LET outcome == MixOutcome(job.n_stems, raised)
          IN  job' = IF outcome = "ok"
                     THEN [job EXCEPT !.pc = "master", !.progress = 25,
                              !.mix = NormalizeToLufs(raw, job.target_lufs,
                                                      measurable)]
                     ELSE Fail([job EXCEPT !.progress = 25], outcome)
    /\ UNCHANGED <<mst, sc, cat, cls, analyzers>>

\* stage 4: SimpleMasteringEngine.master on the platform of the genre target
Master ==
    /\ job.pc = "master"
    /\ job' = [job EXCEPT !.pc = "export", !.progress = 60,
                  !.platform = PlatformFor(job.target_lufs),
                  !.master = SimpleMaster(job.mix, PlatformFor(job.target_lufs))]
    /\ UNCHANGED <<mst, sc, cat, cls, analyzers>>

\* stage 5 and the return: both files are written, the report says success
Export ==
    /\ job.pc = "export"
    /\ job' = [job EXCEPT !.pc = "done", !.progress = 100,
                  !.files = {"mix", "master"}, !.success = TRUE]
    /\ UNCHANGED <<mst, sc, cat, cls, analyzers>>

InitPipeline ==
    /\ \E via \in {"api", "direct"}, n \in 0..MaxStems,
          override \in OverrideChoices :
          /\ via = "api" => n >= 1
          /\ job = NewJob(via, n, override)
    /\ mst = 0 /\ sc = 0 /\ cat = 0 /\ cls = 0 /\ AnalyzersIdle

NextPipeline ==
    \/ UploadStems
    \/ LoadStems
    \/ DetectGenre
    \/ Mix
    \/ Master
    \/ Export

SpecPipeline == InitPipeline /\ [][NextPipeline]_vars

(***************************************************************************)
(* Claims about a pipeline run.                                            *)
(***************************************************************************)
\* C1: the master returned by a finished run has a peak no higher than the
\* job's ceiling (the one the run was given or the one it resolved from the
\* genre, whichever is higher) plus 0.1 dB
C1_PeakWithinJobCeiling ==
    job.pc = "done" =>
        job.master.output_peak <= Max2(job.ceiling_given, job.ceiling_dbTP) + 1

\* C3: a run never aborts because an enhancement step raised: whenever a
\* run has failed, the cause is not one of the optional stages
C3_OptionalStageNeverAborts ==
    job.pc = "failed" => job.error \notin OptionalStages

\* C4: a run whose genre override is not a catalog id never goes on to mix,
\* master or finish under another genre
C4_InvalidOverrideNeverMixed ==
    (job.override # "none" /\ job.override \notin GenreSet) =>
        /\ job.pc \notin {"mix", "master", "export", "done"}
        /\ job.genre = "none"

\* C5: a run with no stems never finishes, never reports success and never
\* writes an output file, with or without a genre override
C5_EmptyStemsAlwaysFail ==
    job.n_stems = 0 =>
        /\ job.pc \notin {"master", "export", "done"}
        /\ ~job.success
        /\ job.files = {}

\* an empty run with a valid override that got as far as the mix and failed
C5_EmptyStemsFailedInMix ==
    /\ job.n_stems = 0
    /\ job.override \in GenreSet
    /\ job.pc = "failed"
    /\ job.error = "empty"

\* C6: the loudness the master of a finished run measures at is within
\* 1.0 LU of the target the run resolved for its genre
C6_LoudnessWithinOneLU ==
    job.pc = "done" => Abs(job.master.output_lufs - job.target_lufs) <= 10

(***************************************************************************)
(* The instrument preset catalog (presets/instrument_presets.py) and       *)
(* StemProcessor.process (mixer/stem_processor.py).  cat.presets is the    *)
(* module-level INSTRUMENT_PRESETS object shared by every job of the       *)
(* process.                                                                *)
(***************************************************************************)
\* most stem-processing calls followed in one run
MaxCalls == 3

\* the catalog entries of the model, with the gainDb and panning_angle of
\* the source
PresetRoles == {"kick", "bass", "vocal", "hihat", "other"}

INSTRUMENT_PRESETS ==
    [r \in PresetRoles |->
        CASE r = "kick"  -> [gainDb |-> 0,  panning_angle |-> 0]
          [] r = "bass"  -> [gainDb |-> -3, panning_angle |-> 0]
          [] r = "vocal" -> [gainDb |-> 0,  panning_angle |-> 0]
          [] r = "hihat" -> [gainDb |-> -4, panning_angle |-> 25]
          [] r = "other" -> [gainDb |-> -4, panning_angle |-> 0]]

\* the role names callers pass: catalog keys, aliases and an unknown name
StemRoles == PresetRoles \cup {"vox", "sub", "hat", "banjo"}

\* get_instrument_preset: the catalog key whose entry it returns; the entry
\* itself is returned, not a copy
get_instrument_preset(stem_role) ==
    LET role == CASE stem_role = "vox" -> "vocal"
                  [] stem_role = "sub" -> "bass"
                  [] stem_role = "hat" -> "hihat"
                  [] OTHER -> stem_role
    IN  IF role \in PresetRoles THEN role ELSE "other"

\* the custom mix settings of a call: none, or new values for some keys
MixSettings ==
    {<<>>} \cup {[k \in {"gainDb"} |-> v] : v \in {5, -9}}
           \cup {[k \in {"panning_angle"} |-> v] : v \in {30}}

\* dict.update on a preset entry
DictUpdate(preset, settings) ==
    [k \in DOMAIN preset |->
        IF k \in DOMAIN settings THEN settings[k] ELSE preset[k]]

\* StemProcessor.process: the preset is fetched, custom settings are merged
\* into the object that was fetched, and the call returns what it used
ProcessStem ==
    /\ cat.calls < MaxCalls
    /\ \E stem_role \in StemRoles, mix_settings \in MixSettings :
          LET key == get_instrument_preset(stem_role)
              preset == IF mix_settings # <<>>
                        THEN DictUpdate(cat.presets[key], mix_settings)
                        ELSE cat.presets[key]
          IN  cat' = [presets |-> [cat.presets EXCEPT ![key] = preset],
                      calls |-> cat.calls + 1,
                      last |-> [stem_role |-> stem_role,
                                custom |-> mix_settings # <<>>,
                                gain_db |-> preset.gainDb,
                                settings_used |-> preset]]
    /\ UNCHANGED <<mst, job, sc, cls, analyzers>>

InitPresets ==
    /\ cat = [presets |-> INSTRUMENT_PRESETS, calls |-> 0,
              last |-> [stem_role |-> "none", custom |-> FALSE, gain_db |-> 0,
                        settings_used |-> INSTRUMENT_PRESETS["other"]]]
    /\ mst = 0 /\ job = 0 /\ sc = 0 /\ cls = 0 /\ AnalyzersIdle

NextPresets == ProcessStem

SpecPresets == InitPresets /\ [][NextPresets]_vars

\* C7: after any sequence of stem-processing calls, with or without custom
\* mix settings, every preset lookup returns the values of the catalog as
\* it was before the first call
C7_CatalogNeverModified ==
    \A stem_role \in StemRoles :
        cat.presets[get_instrument_preset(stem_role)] =
            INSTRUMENT_PRESETS[get_instrument_preset(stem_role)]

(***************************************************************************)
(* SidechainMatrix.apply_sidechains (mixer/sidechain_matrix.py) and        *)
(* StudioCompressor.sidechain_compress (mixer/effects/compressor.py), on a *)
(* heap: sc.bufs holds the sample buffers, sc.dicts the stem mappings, and *)
(* a mapping takes a stem name to the index of its buffer.                 *)
(***************************************************************************)
\* number of samples of a stem buffer
SideLen == 3

\* most applications of the matrix to the same inputs in one run
MaxRuns == 2

SideLevels == {0, 60, 500}

\* the stems of the model in the order of the stem_roles mapping
StemOrder == <<"kick_01", "bass_01", "pad_01">>

StemNames == {StemOrder[i] : i \in 1..Len(StemOrder)}

RoleOf(name) ==
    CASE name = "kick_01" -> "kick"
      [] name = "bass_01" -> "bass"
      [] name = "pad_01"  -> "synth"

\* SidechainMatrix.sidechain_rules in order; ratio in hundredths, the
\* threshold in tenths of a dB; filtered says whether freq_range is set
sidechain_rules ==
    << [source |-> "kick",  target |-> "bass",   filtered |-> TRUE,
        threshold_db |-> -200, ratio |-> 1000, attack_ms |-> 5, release_ms |-> 100],
       [source |-> "kick",  target |-> "synth",  filtered |-> TRUE,
        threshold_db |-> -220, ratio |-> 600,  attack_ms |-> 5, release_ms |-> 120],
       [source |-> "vocal", target |-> "synth",  filtered |-> FALSE,
        threshold_db |-> -250, ratio |-> 300,  attack_ms |-> 10, release_ms |-> 150],
       [source |-> "vocal", target |-> "guitar", filtered |-> FALSE,
        threshold_db |-> -250, ratio |-> 300,  attack_ms |-> 10, release_ms |-> 150],
       [source |-> "vocal", target |-> "piano",  filtered |-> FALSE,
        threshold_db |-> -260, ratio |-> 250,  attack_ms |-> 15, release_ms |-> 180],
       [source |-> "snare", target |-> "vocal",  filtered |-> TRUE,
        threshold_db |-> -180, ratio |-> 400,  attack_ms |-> 3, release_ms |-> 60] >>

\* the severities MaskingAnalyzer can attach to a kick/bass conflict, in
\* hundredths; only a severity above 0.3 yields a recommendation
SeverityLevels == {20, 31, 40, 100}

\* MaskingAnalyzer._generate_recommendation for a kick/bass conflict: the
\* sidechain entry, with reduction_db = 3.0 * severity (hundredths of a dB)
generate_recommendation(severity, kick, bass) ==
    [severity |-> severity,
     sidechain |-> [source |-> kick, target |-> bass,
                    reduction_db |-> 3 * severity,
                    attack_ms |-> 5, release_ms |-> 100]]

\* the recommendations analyze_masking_between_stems returns for a conflict
MaskingRecommendations(severity, present) ==
    IF severity > 30 /\ {"kick_01", "bass_01"} \subseteq present
    THEN <<generate_recommendation(severity, "kick_01", "bass_01")>>
    ELSE <<>>

\* the band-pass of sidechain_compress: a fixed two-tap filter stands for
\* the Butterworth sections
BandFilter(s) ==
    [i \in 1..Len(s) |-> (s[i] + (IF i > 1 THEN s[i - 1] ELSE 0)) \div 2]

\* StudioCompressor._calculate_envelope on a mono signal
CalculateEnvelope(s, attack_ms, release_ms) ==
    LET rectified == [i \in 1..Len(s) |-> Abs(s[i])]
    IN  <<rectified[1]>> \o
        EnvelopeFrom(Tail(rectified), rectified[1],
                     ExpCoef(MsToSamples(10 * attack_ms)),
                     ExpCoef(MsToSamples(10 * release_ms)))

\* sidechain_compress up to the gain: the envelope in tenths of a dB and
\* the gain reduction in thousandths of a dB, (env - threshold) * (1 - 1/ratio)
\* where the envelope is above the threshold and 0 elsewhere
SidechainReduction(sidechain, set) ==
    LET filtered == IF set.filtered THEN BandFilter(sidechain) ELSE sidechain
        envelope == CalculateEnvelope(filtered, set.attack_ms, set.release_ms)
        envelope_db == [i \in 1..Len(envelope) |-> LinToDb(envelope[i])]
    IN  [envelope_db |-> envelope_db,
         gain_reduction_db |->
             [i \in 1..Len(envelope) |->
                 IF envelope_db[i] > set.threshold_db
                 THEN ((envelope_db[i] - set.threshold_db) * 100 *
                          (set.ratio - 100)) \div set.ratio
                 ELSE 0]]

\* 10 ** (-gain_reduction_db / 20) times the audio
SidechainOutput(audio, gain_reduction_db) ==
    [i \in 1..Len(audio) |->
        MulFix(audio[i], DbToLin(-(gain_reduction_db[i] \div 100)))]

\* the settings a masking recommendation is applied with: threshold -20 dB,
\* the recommended reduction as the ratio, its frequency range as the band
MaskingSettings(rec) ==
    [source |-> rec.sidechain.source, target |-> rec.sidechain.target,
     filtered |-> TRUE, threshold_db |-> -200,
     ratio |-> rec.sidechain.reduction_db,
     attack_ms |-> rec.sidechain.attack_ms,
     release_ms |-> rec.sidechain.release_ms, kind |-> "masking"]

\* the stems of a role, in mapping order
NamesWithRole(role) == SelectSeq(StemOrder, LAMBDA n : RoleOf(n) = role)

\* the (source, target) pairs of one rule with its settings
RulePairs(rule) ==
    LET S == NamesWithRole(rule.source)
        T == NamesWithRole(rule.target)
    IN  [k \in 1..(Len(S) * Len(T)) |->
            [source |-> S[((k - 1) \div Len(T)) + 1],
             target |-> T[((k - 1) % Len(T)) + 1],
             filtered |-> rule.filtered, threshold_db |-> rule.threshold_db,
             ratio |-> rule.ratio, attack_ms |-> rule.attack_ms,
             release_ms |-> rule.release_ms, kind |-> "rule"]]

RECURSIVE RuleApplications(_)
\* the applications the rule loop attempts from rule i on, in order
RuleApplications(i) ==
    IF i > Len(sidechain_rules) THEN <<>>
    ELSE RulePairs(sidechain_rules[i]) \o RuleApplications(i + 1)

\* the applications of one call: the rules, then the recommendations that
\* carry a sidechain entry
Applications(recs) ==
    RuleApplications(1) \o [k \in 1..Len(recs) |-> MaskingSettings(recs[k])]

\* stems.copy() if it handed back the mapping itself
DictCopyAliased(dicts, id) == [dicts |-> dicts, id |-> id]

\* stems.copy(): a new mapping with the same entries
DictCopy(dicts, id) == [dicts |-> Append(dicts, dicts[id]), id |-> Len(dicts) + 1]

RECURSIVE ApplyFrom(_, _, _, _)
\* the two loops of apply_sidechains over the applications: each one that
\* finds its source in stems and its target in processed_stems stores a
\* new buffer under the target; a two-channel sidechain makes
\* _calculate_envelope raise and ends the call
ApplyFrom(apps, st, stems, processed) ==
    IF apps = <<>> \/ st.raised THEN st
    ELSE LET a == Head(apps)
             rest == Tail(apps)
         IN  IF a.source \in DOMAIN st.dicts[stems] /\
                a.target \in DOMAIN st.dicts[processed]
             THEN LET sidechain == st.bufs[st.dicts[stems][a.source]]
                      audio == st.bufs[st.dicts[processed][a.target]]
                      red == SidechainReduction(sidechain.samples, a)
                      output == [stereo |-> audio.stereo,
                                 samples |-> SidechainOutput(audio.samples,
                                                 red.gain_reduction_db)]
                  IN  IF sidechain.stereo
                      THEN [st EXCEPT !.raised = TRUE]
                      ELSE ApplyFrom(rest,
                               [st EXCEPT
                                   !.bufs = Append(@, output),
                                   !.dicts[processed][a.target] = Len(st.bufs) + 1,
                                   !.log = Append(@,
                                       [kind |-> a.kind, source |-> a.source,
                                        target |-> a.target,
                                        threshold_db |-> a.threshold_db,
                                        envelope_db |-> red.envelope_db,
                                        gain_reduction_db |-> red.gain_reduction_db])],
                               stems, processed)
             ELSE ApplyFrom(rest, st, stems, processed)

\* SidechainMatrix.apply_sidechains(stems, stem_roles, recommendations):
\* the heap after the call, the applications made and the mapping returned
apply_sidechains(bufs, dicts, stems, recs) ==
    LET copy == DictCopy(dicts, stems)
    IN  [st |-> ApplyFrom(Applications(recs),
                          [bufs |-> bufs, dicts |-> copy.dicts, log |-> <<>>,
                           raised |-> FALSE],
                          stems, copy.id),
         returned |-> copy.id]

\* what a caller sees of a returned mapping: the samples under each name
Contents(bufs, dict) == [n \in DOMAIN dict |-> bufs[dict[n]]]

\* one call of apply_sidechains on the stems the run started with
ApplySidechains ==
    /\ Len(sc.outs) < MaxRuns
    /\ LET r == apply_sidechains(sc.bufs, sc.dicts, sc.stems, sc.recs)
       IN  sc' = [sc EXCEPT
                     !.bufs = r.st.bufs,
                     !.dicts = r.st.dicts,
                     !.applied = r.st.log,
                     !.outs = Append(@,
                                 [raised |-> r.st.raised,
                                  stems |-> IF r.st.raised THEN <<>>
                                            ELSE Contents(r.st.bufs,
                                                     r.st.dicts[r.returned])])]
    /\ UNCHANGED <<mst, job, cat, cls, analyzers>>

\* the buffers a stem of the model can hold
KickBuffers == [1..SideLen -> SideLevels]

TargetBuffers == {[i \in 1..SideLen |-> 300], [i \in 1..SideLen |-> -800 + 400 * (i % 3)]}

InitSidechain ==
    /\ \E present \in SUBSET StemNames, kick \in KickBuffers,
          target \in TargetBuffers, stereo \in SUBSET StemNames,
          severity \in SeverityLevels :
          /\ present # {}
          /\ stereo \subseteq present
          /\ LET names == SelectSeq(StemOrder, LAMBDA n : n \in present)
                 bufs == [k \in 1..Len(names) |->
                             [stereo |-> names[k] \in stereo,
                              samples |-> IF RoleOf(names[k]) = "kick"
                                          THEN kick ELSE target]]
                 dict == [n \in present |->
                             CHOOSE k \in 1..Len(names) : names[k] = n]
             IN  sc = [bufs |-> bufs, dicts |-> <<dict>>, stems |-> 1,
                       recs |-> MaskingRecommendations(severity, present),
                       orig |-> Contents(bufs, dict), orig_dict |-> dict,
                       applied |-> <<>>, outs |-> <<>>]
    /\ mst = 0 /\ job = 0 /\ cat = 0 /\ cls = 0 /\ AnalyzersIdle

NextSidechain == ApplySidechains

SpecSidechain == InitSidechain /\ [][NextSidechain]_vars

\* C8: in every sidechain application, static or masking-derived, the gain
\* reduction is 0 dB (gain exactly 1) at the samples where the source
\* envelope is at or below the threshold and positive (gain below 1) where
\* the envelope is above it; it is never negative (gain above 1)
C8_SidechainOnlyReduces ==
    \A k \in 1..Len(sc.applied) :
        \A i \in 1..Len(sc.applied[k].envelope_db) :
            IF sc.applied[k].envelope_db[i] <= sc.applied[k].threshold_db
            THEN sc.applied[k].gain_reduction_db[i] = 0
            ELSE sc.applied[k].gain_reduction_db[i] > 0

\* C9: after any number of applications the mapping passed in still maps
\* every stem to its original buffer, every original buffer still holds its
\* original samples, and a second application returned what the first did
C9_InputsUntouchedAndRepeatable ==
    /\ sc.dicts[sc.stems] = sc.orig_dict
    /\ Contents(sc.bufs, sc.orig_dict) = sc.orig
    /\ Len(sc.outs) = 2 => sc.outs[1] = sc.outs[2]

\* two applications have returned, and the first one changed a target
C9_AppliedTwiceWithDucking ==
    /\ Len(sc.outs) = 2
    /\ ~sc.outs[1].raised
    /\ sc.outs[1].stems # sc.orig

(***************************************************************************)
(* SourceClassifier (analyzer/classifier.py).  A stem name is a sequence   *)
(* of characters.                                                          *)
(***************************************************************************)
\* most tokens a stem name of the model is made of
MaxTokens == 3

NameTokens ==
    { <<"K", "i", "c", "k">>,
      <<"B", "A", "S", "S">>,
      <<"s", "u", "b">>,
      <<"S", "D">>,
      <<"h", "a", "t">>,
      <<"e", "p">>,
      <<"L", "e", "a", "d">>,
      <<"s", "t", "r", "i", "n", "g">>,
      <<"_">>,
      <<"0", "1">>,
      <<"m", "i", "x">> }

RECURSIVE NamesOf(_)
\* the names made of exactly n tokens
NamesOf(n) ==
    IF n = 0 THEN {<<>>}
    ELSE {t \o rest : t \in NameTokens, rest \in NamesOf(n - 1)}

StemNameSet == UNION {NamesOf(n) : n \in 1..MaxTokens}

\* the lower-case form of one character
Lower(c) ==
    CASE c = "A" -> "a"
      [] c = "B" -> "b"
      [] c = "C" -> "c"
      [] c = "D" -> "d"
      [] c = "E" -> "e"
      [] c = "F" -> "f"
      [] c = "G" -> "g"
      [] c = "H" -> "h"
      [] c = "I" -> "i"
      [] c = "J" -> "j"
      [] c = "K" -> "k"
      [] c = "L" -> "l"
      [] c = "M" -> "m"
      [] c = "N" -> "n"
      [] c = "O" -> "o"
      [] c = "P" -> "p"
      [] c = "Q" -> "q"
      [] c = "R" -> "r"
      [] c = "S" -> "s"
      [] c = "T" -> "t"
      [] c = "U" -> "u"
      [] c = "V" -> "v"
      [] c = "W" -> "w"
      [] c = "X" -> "x"
      [] c = "Y" -> "y"
      [] c = "Z" -> "z"
      [] OTHER -> c

\* name.lower() if it left the name as it is
name_unchanged(name) == name

\* name.lower()
name_lower(name) == [i \in 1..Len(name) |-> Lower(name[i])]

\* p in name_lower: the pattern occurs in the name as a substring
Contains(name, p) ==
    \E off \in 0..(Len(name) - Len(p)) :
        \A i \in 1..Len(p) : name[off + i] = p[i]

\* the keyword lists of _classify_by_filename in the order they are tried,
\* each with the role it returns
filename_patterns ==
    << [role |-> "kick", patterns |->
        << <<"k", "i", "c", "k">>,
           <<"b", "d">>,
           <<"b", "a", "s", "s", "d", "r", "u", "m">>,
           <<"8", "0", "8">>,
           <<"b", "o", "o", "m">> >>],
       [role |-> "bass", patterns |->
        << <<"b", "a", "s", "s">>,
           <<"s", "u", "b">>,
           <<"l", "o", "w", " ", "e", "n", "d">>,
           <<"l", "o", "w", "e", "n", "d">> >>],
       [role |-> "snare", patterns |->
        << <<"s", "n", "a", "r", "e">>,
           <<"s", "d">>,
           <<"c", "l", "a", "p">>,
           <<"r", "i", "m", "s", "h", "o", "t">>,
           <<"s", "n", "r">> >>],
       [role |-> "hihat", patterns |->
        << <<"h", "i", "-", "h", "a", "t">>,
           <<"h", "i", "h", "a", "t">>,
           <<"h", "h">>,
           <<"h", "a", "t">>,
           <<"s", "h", "a", "k", "e", "r">>,
           <<"c", "y", "m", "b", "a", "l">>,
           <<"r", "i", "d", "e">>,
           <<"c", "r", "a", "s", "h">> >>],
       [role |-> "percussion", patterns |->
        << <<"p", "e", "r", "c">>,
           <<"c", "o", "n", "g", "a">>,
           <<"b", "o", "n", "g", "o">>,
           <<"t", "o", "m">>,
           <<"t", "o", "m", "s">>,
           <<"t", "a", "m", "b">> >>],
       [role |-> "drums", patterns |->
        << <<"d", "r", "u", "m">>,
           <<"d", "r", "u", "m", "s">>,
           <<"b", "e", "a", "t">>,
           <<"l", "o", "o", "p">> >>],
       [role |-> "vocal", patterns |->
        << <<"v", "o", "c", "a", "l">>,
           <<"v", "o", "x">>,
           <<"v", "o", "i", "c", "e">>,
           <<"s", "i", "n", "g">>,
           <<"a", "d", "l", "i", "b">>,
           <<"h", "o", "o", "k">>,
           <<"v", "e", "r", "s", "e">>,
           <<"c", "h", "o", "r", "u", "s">> >>],
       [role |-> "synth", patterns |->
        << <<"s", "y", "n", "t", "h">>,
           <<"p", "a", "d">>,
           <<"l", "e", "a", "d">>,
           <<"a", "r", "p">>,
           <<"p", "l", "u", "c", "k">>,
           <<"s", "t", "a", "b">>,
           <<"c", "h", "o", "r", "d">> >>],
       [role |-> "piano", patterns |->
        << <<"p", "i", "a", "n", "o">>,
           <<"k", "e", "y", "s">>,
           <<"k", "e", "y", "b", "o", "a", "r", "d">>,
           <<"o", "r", "g", "a", "n">>,
           <<"r", "h", "o", "d", "e", "s">>,
           <<"w", "u", "r", "l", "i">>,
           <<"e", "p">> >>],
       [role |-> "guitar", patterns |->
        << <<"g", "u", "i", "t", "a", "r">>,
           <<"g", "t", "r">>,
           <<"a", "c", "o", "u", "s", "t", "i", "c">>,
           <<"e", "l", "e", "c", "t", "r", "i", "c">>,
           <<"s", "t", "r", "u", "m">> >>],
       [role |-> "synth", patterns |->
        << <<"s", "t", "r", "i", "n", "g">>,
           <<"v", "i", "o", "l", "i", "n">>,
           <<"c", "e", "l", "l", "o">>,
           <<"o", "r", "c", "h", "e", "s", "t", "r", "a">> >>],
       [role |-> "fx", patterns |->
        << <<"f", "x">>,
           <<"e", "f", "f", "e", "c", "t">>,
           <<"r", "i", "s", "e", "r">>,
           <<"i", "m", "p", "a", "c", "t">>,
           <<"s", "w", "e", "e", "p">>,
           <<"n", "o", "i", "s", "e">>,
           <<"a", "t", "m", "o", "s">>,
           <<"a", "m", "b", "i", "e", "n", "t">> >>] >>

RECURSIVE FirstPatternRole(_, _)
\* the chain of loops of _classify_by_filename from list i on
FirstPatternRole(lowered, i) ==
    IF i > Len(filename_patterns) THEN "none"
    ELSE IF \E k \in 1..Len(filename_patterns[i].patterns) :
                Contains(lowered, filename_patterns[i].patterns[k])
         THEN filename_patterns[i].role
         ELSE FirstPatternRole(lowered, i + 1)

\* SourceClassifier._classify_by_filename; "none" is None
classify_by_filename(name) == FirstPatternRole(name_lower(name), 1)

\* the categories the audio analysis scores (SourceClassifier.thresholds)
Categories == {"kick", "bass", "snare", "hihat", "vocal", "synth", "guitar",
               "piano"}

\* the best score of the audio analysis, in hundredths
ConfidenceLevels == {20, 60, 95}

\* SourceClassifier.classify: the filename first, the audio analysis (its
\* best category and score depend on the samples) only without a match
Classify ==
    /\ cls.pc = "new"
    /\ \E best_category \in Categories, confidence \in ConfidenceLevels :
          LET filename_class == classify_by_filename(cls.name)
          IN  cls' = IF filename_class # "none"
                     THEN [cls EXCEPT !.pc = "done", !.role = filename_class,
                                      !.confidence = 100]
                     ELSE [cls EXCEPT !.pc = "done", !.role = best_category,
                                      !.confidence = confidence]
    /\ UNCHANGED <<mst, job, sc, cat, analyzers>>

InitClassify ==
    /\ \E name \in StemNameSet :
          cls = [name |-> name, pc |-> "new", role |-> "none", confidence |-> 0]
    /\ mst = 0 /\ job = 0 /\ sc = 0 /\ cat = 0 /\ AnalyzersIdle

NextClassify == Classify

SpecClassify == InitClassify /\ [][NextClassify]_vars

\* the pattern occurs in the name when the case of letters is ignored
ContainsIgnoringCase(name, p) ==
    \E off \in 0..(Len(name) - Len(p)) :
        \A i \in 1..Len(p) : Lower(name[off + i]) = Lower(p[i])

\* the keyword lists with a keyword that occurs in the name
MatchingLists(name) ==
    {i \in 1..Len(filename_patterns) :
        \E k \in 1..Len(filename_patterns[i].patterns) :
            ContainsIgnoringCase(name, filename_patterns[i].patterns[k])}

\* C10: a stem whose name contains, ignoring case, a keyword of the lists
\* is classified as the role of the first list in order with such a
\* keyword, with confidence 1.0, whatever the audio analysis would say
C10_FilenameKeywordDecides ==
    (cls.pc = "done" /\ MatchingLists(cls.name) # {}) =>
        /\ \E i \in MatchingLists(cls.name) :
              /\ \A j \in MatchingLists(cls.name) : i <= j
              /\ cls.role = filename_patterns[i].role
        /\ cls.confidence = 100

\* a classified name with capital letters that matches two lists or more
C10_MixedCaseNameWithTwoLists ==
    /\ cls.pc = "done"
    /\ Cardinality(MatchingLists(cls.name)) >= 2
    /\ name_lower(cls.name) # cls.name
    /\ ~(\E i \in 1..Len(filename_patterns) :
            \E k \in 1..Len(filename_patterns[i].patterns) :
                Contains(cls.name, filename_patterns[i].patterns[k]))

(***************************************************************************)
(* SourceClassifier on a set of stems: the audio analysis of classify,     *)
(* classify_multiple and get_stem_roles (analyzer/classifier.py).  Feature *)
(* ratios and scores are in thousandths (1000 = 1.0), the spectral         *)
(* centroid is in Hz.  A stem's audio is one of a few kinds of content;    *)
(* ExtractFeatures gives the features _extract_features computes for it.   *)
(***************************************************************************)
\* most calls of the classifier in one behaviour
MaxClassifyCalls == 2

\* SourceClassifier.thresholds, in the order of the dictionary
CategoryOrder ==
    <<"kick", "bass", "snare", "hihat", "vocal", "synth", "guitar", "piano">>

\* SourceClassifier.thresholds
thresholds ==
    [kick   |-> [low_energy_ratio |-> 400, transient_strength |-> 600,
                 harmonic_ratio |-> 300, spectral_centroid |-> 200],
     bass   |-> [low_energy_ratio |-> 500, harmonic_ratio |-> 600,
                 spectral_centroid |-> 300],
     snare  |-> [mid_energy_ratio |-> 300, transient_strength |-> 700,
                 spectral_centroid |-> 2000],
     hihat  |-> [high_energy_ratio |-> 600, transient_strength |-> 500,
                 spectral_centroid |-> 8000],
     vocal  |-> [mid_energy_ratio |-> 400, harmonic_ratio |-> 700,
                 spectral_centroid |-> 1000, formant_presence |-> 500],
     synth  |-> [harmonic_ratio |-> 600, spectral_centroid |-> 1500],
     guitar |-> [harmonic_ratio |-> 650, mid_energy_ratio |-> 350,
                 spectral_centroid |-> 1200],
     piano  |-> [harmonic_ratio |-> 750, transient_strength |-> 400,
                 spectral_centroid |-> 800]]

\* the kinds of audio content a stem of the model holds
AudioKinds == {"silence", "sub_thump", "sine_bass", "noise_burst", "voice"}

\* SourceClassifier._extract_features: the features of each kind of content.
\* Every feature is always computed; an all-zero signal has every energy,
\* the centroid, the onset strength and the formant peak count at zero.
ExtractFeatures(audio) ==
    CASE audio = "silence" ->
           [spectral_centroid |-> 0, low_energy_ratio |-> 0,
            mid_energy_ratio |-> 0, high_energy_ratio |-> 0,
            harmonic_ratio |-> 0, percussive_ratio |-> 0,
            transient_strength |-> 0, formant_presence |-> 0,
            zero_crossing_rate |-> 0]
      [] audio = "sub_thump" ->
           [spectral_centroid |-> 180, low_energy_ratio |-> 820,
            mid_energy_ratio |-> 150, high_energy_ratio |-> 30,
            harmonic_ratio |-> 250, percussive_ratio |-> 750,
            transient_strength |-> 450, formant_presence |-> 0,
            zero_crossing_rate |-> 10]
      [] audio = "sine_bass" ->
           [spectral_centroid |-> 260, low_energy_ratio |-> 900,
            mid_energy_ratio |-> 100, high_energy_ratio |-> 0,
            harmonic_ratio |-> 950, percussive_ratio |-> 50,
            transient_strength |-> 120, formant_presence |-> 100,
            zero_crossing_rate |-> 5]
      [] audio = "noise_burst" ->
           [spectral_centroid |-> 9000, low_energy_ratio |-> 20,
            mid_energy_ratio |-> 180, high_energy_ratio |-> 800,
            harmonic_ratio |-> 100, percussive_ratio |-> 900,
            transient_strength |-> 300, formant_presence |-> 200,
            zero_crossing_rate |-> 400]
      [] OTHER ->
           [spectral_centroid |-> 1100, low_energy_ratio |-> 100,
            mid_energy_ratio |-> 800, high_energy_ratio |-> 100,
            harmonic_ratio |-> 850, percussive_ratio |-> 150,
            transient_strength |-> 200, formant_presence |-> 600,
            zero_crossing_rate |-> 60]

\* the branch of _score_category a feature name takes
FeatureKind(feature_name) ==
    CASE feature_name \in {"low_energy_ratio", "mid_energy_ratio",
                           "high_energy_ratio", "harmonic_ratio",
                           "percussive_ratio", "formant_presence"} -> "ratio"
      [] feature_name = "spectral_centroid" -> "centroid"
      [] feature_name = "transient_strength" -> "strength"
      [] OTHER -> "default"

\* the score of one feature against its threshold in _score_category
FeatureScore(feature_name, feature_value, threshold) ==
    CASE FeatureKind(feature_name) \in {"ratio", "strength"} ->
           IF feature_value >= threshold
           THEN Min2(One, (feature_value * One) \div threshold)
           ELSE (feature_value * One) \div threshold
      [] FeatureKind(feature_name) = "centroid" ->
           Max2(0, One - ((Abs(feature_value - threshold) * One)
                             \div threshold))
      [] OTHER -> (One * One) \div (One + Abs(feature_value - threshold))

RECURSIVE SumOver(_, _)
\* the sum of f over the set S
SumOver(f, S) ==
    IF S = {} THEN 0
    ELSE LET x == CHOOSE y \in S : TRUE
         IN  f[x] + SumOver(f, S \ {x})

\* SourceClassifier._score_category with the thresholds table th
score_category(features, category, th) ==
    LET scored == DOMAIN th[category] \cap DOMAIN features
        scores == [n \in scored |->
                      FeatureScore(n, features[n], th[category][n])]
    IN  IF scored # {} THEN SumOver(scores, scored) \div Cardinality(scored)
        ELSE 0

RECURSIVE CategoryScores(_, _, _)
\* the loop of classify over the categories from the i-th on: the scores
\* in the order of the dictionary
CategoryScores(features, th, i) ==
    IF i > Len(CategoryOrder) THEN <<>>
    ELSE <<score_category(features, CategoryOrder[i], th)>>
         \o CategoryScores(features, th, i + 1)

\* max(scores, key=scores.get): the position of the first category in
\* dictionary order with the highest score
BestCategory(scores) ==
    CHOOSE k \in 1..Len(scores) :
        /\ \A j \in 1..Len(scores) : scores[j] <= scores[k]
        /\ \A j \in 1..(k - 1) : scores[j] < scores[k]

\* SourceClassifier.classify: (classification, confidence)
classify(audio, name, th) ==
    LET filename_class == classify_by_filename(name)
        scores == CategoryScores(ExtractFeatures(audio), th, 1)
        best_category == BestCategory(scores)
    IN  IF filename_class # "none"
        THEN [classification |-> filename_class, confidence |-> One]
        ELSE [classification |-> CategoryOrder[best_category],
              confidence |-> scores[best_category]]

RECURSIVE classify_multiple_first(_, _, _)
\* classify_multiple if every stem were analysed with the audio of the
\* first stem of the dictionary
classify_multiple_first(stems, order, th) ==
    IF order = <<>> THEN <<>>
    ELSE classify_multiple_first(stems, SubSeq(order, 1, Len(order) - 1), th)
         \o <<[name |-> order[Len(order)], audio |-> stems[order[Len(order)]],
               result |-> classify(stems[order[1]], order[Len(order)], th)]>>

RECURSIVE classify_multiple(_, _, _)
\* SourceClassifier.classify_multiple over a dictionary whose keys are
\* iterated in the given order: one classify call per stem
classify_multiple(stems, order, th) ==
    IF order = <<>> THEN <<>>
    ELSE <<[name |-> order[1], audio |-> stems[order[1]],
            result |-> classify(stems[order[1]], order[1], th)]>>
         \o classify_multiple(stems, Tail(order), th)

\* SourceClassifier.get_stem_roles if a zero confidence kept its category
stem_role_kept(result) ==
    IF result.confidence >= 0 THEN result.classification ELSE "other"

\* SourceClassifier.get_stem_roles for one classification
stem_role(result) ==
    IF result.confidence > 500 THEN result.classification ELSE "other"

\* the stem names of the classifier's stem sets
StemKeys == {<<"K", "i", "c", "k">>, <<"m", "i", "x">>}

\* the orders in which the keys of a dictionary with the keys S can be
\* iterated, according to the order of insertion
OrdersOf(S) ==
    {o \in [1..Cardinality(S) -> S] : \A i, j \in DOMAIN o :
                                          i # j => o[i] # o[j]}

\* one direct call of classify on a stem of the set
ClassifyStem ==
    /\ cls.calls < MaxClassifyCalls
    /\ \E name \in DOMAIN cls.stems :
          cls' = [cls EXCEPT
                    !.calls = @ + 1,
                    !.log = @ \o <<[name |-> name, audio |-> cls.stems[name],
                                    result |-> classify(cls.stems[name], name,
                                                        cls.thresholds),
                                    call |-> cls.calls + 1, many |-> FALSE,
                                    role |-> "none"]>>]
    /\ UNCHANGED <<mst, job, sc, cat, analyzers>>

\* SourceClassifier.get_stem_roles over the classifications of one call,
\* kept with the call they come from
get_stem_roles(classifications, call) ==
    [i \in 1..Len(classifications) |->
        [name |-> classifications[i].name,
         audio |-> classifications[i].audio,
         result |-> classifications[i].result,
         call |-> call, many |-> TRUE,
         role |-> stem_role(classifications[i].result)]]

\* the classification step of MixEngine.mix: classify_multiple on a
\* dictionary of some or all stems in some order, then get_stem_roles
ClassifyMultiple ==
    /\ cls.calls < MaxClassifyCalls
    /\ \E S \in SUBSET (DOMAIN cls.stems) \ {{}} : \E order \in OrdersOf(S) :
          cls' = [cls EXCEPT
                    !.calls = @ + 1,
                    !.log = @ \o get_stem_roles(
                                    classify_multiple(cls.stems, order,
                                                      cls.thresholds),
                                    cls.calls + 1)]
    /\ UNCHANGED <<mst, job, sc, cat, analyzers>>

InitClassifier ==
    /\ \E S \in SUBSET StemKeys \ {{}} : \E stems \in [S -> AudioKinds] :
          cls = [stems |-> stems, thresholds |-> thresholds, calls |-> 0,
                 log |-> <<>>]
    /\ mst = 0 /\ job = 0 /\ sc = 0 /\ cat = 0 /\ AnalyzersIdle

NextClassifier == ClassifyStem \/ ClassifyMultiple

SpecClassifier == InitClassifier /\ [][NextClassifier]_vars

C12_NoFeatureMeansOther ==
    \A i \in 1..Len(cls.log) :
        (/\ cls.log[i].many
         /\ MatchingLists(cls.log[i].name) = {}
         /\ \A c \in Categories : \A n \in DOMAIN thresholds[c] :
               \/ n \notin DOMAIN ExtractFeatures(cls.log[i].audio)
               \/ ExtractFeatures(cls.log[i].audio)[n] = 0)
        => /\ cls.log[i].result.confidence = 0
           /\ cls.log[i].role = "other"

\* a silent stem with a name without keyword went through the
\* classification step
C12_SilentUnnamedStemClassified ==
    \E i \in 1..Len(cls.log) :
        /\ cls.log[i].many
        /\ cls.log[i].audio = "silence"
        /\ MatchingLists(cls.log[i].name) = {}
        /\ cls.log[i].result.classification = "kick"
        /\ cls.log[i].role = "other"

(***************************************************************************)
(* GenreDetector (analyzer/genre_detector.py).  The rough mix is described *)
(* by its length in samples, the lag of the highest autocorrelation value  *)
(* of its onset envelope, and the spectral and dynamic figures the         *)
(* analysis extracts from it.  Tempo is in hundredths of a BPM, ratios are *)
(* in thousandths, dynamic range in tenths of a dB, raw genre scores in    *)
(* hundredths.  A normalized score is the fraction num / den.              *)
(***************************************************************************)
\* the default sample rate of GenreDetector
DetectorSampleRate == 48000

\* hop and window of the onset envelope in _detect_tempo
TempoHop == 512

TempoWindow == 1024

\* the default tempo of _detect_tempo, 120.0 BPM
DefaultTempo == 12000

\* GENRE_PROFILES / the scores dictionary in the order it is filled
GenreOrder ==
    <<"house", "techno", "edm", "hiphop", "pop", "rock", "rnb", "acoustic">>

\* the lengths of the rough mixes of the model, in samples
MixLengths == {1, 1024, 1025, 4097, 65536}

\* the lags at which the autocorrelation of the rough mixes peaks
PeakLags == {28, 40, 43, 44, 46, 47, 60, 90}

\* the figures _analyze_spectrum, _analyze_dynamics, _detect_transients and
\* _detect_four_on_floor extract from the content of the rough mixes
MixProfiles ==
    { [sub_bass_ratio |-> 50, bass_ratio |-> 220, mid_ratio |-> 300,
       high_ratio |-> 150, brightness |-> 300, presence_ratio |-> 60,
       crest_factor |-> 4000, dynamic_range_db |-> 100,
       transient_density |-> 400, four_on_floor_score |-> 600],
      [sub_bass_ratio |-> 20, bass_ratio |-> 100, mid_ratio |-> 550,
       high_ratio |-> 200, brightness |-> 500, presence_ratio |-> 120,
       crest_factor |-> 7500, dynamic_range_db |-> 190,
       transient_density |-> 300, four_on_floor_score |-> 100],
      [sub_bass_ratio |-> 30, bass_ratio |-> 140, mid_ratio |-> 460,
       high_ratio |-> 120, brightness |-> 450, presence_ratio |-> 100,
       crest_factor |-> 5500, dynamic_range_db |-> 150,
       transient_density |-> 200, four_on_floor_score |-> 0],
      [sub_bass_ratio |-> 80, bass_ratio |-> 300, mid_ratio |-> 350,
       high_ratio |-> 80, brightness |-> 200, presence_ratio |-> 90,
       crest_factor |-> 5000, dynamic_range_db |-> 120,
       transient_density |-> 350, four_on_floor_score |-> 300],
      [sub_bass_ratio |-> 10, bass_ratio |-> 60, mid_ratio |-> 480,
       high_ratio |-> 90, brightness |-> 700, presence_ratio |-> 50,
       crest_factor |-> 9000, dynamic_range_db |-> 240,
       transient_density |-> 100, four_on_floor_score |-> 0] }

\* len(range(0, len(audio) - window, hop)): the frames of the onset envelope
OnsetFrames(n_samples) ==
    IF n_samples - TempoWindow <= 0 THEN 0
    ELSE ((n_samples - TempoWindow - 1) \div TempoHop) + 1

\* GenreDetector._detect_tempo; raised is the ValueError of np.max on an
\* empty onset envelope
detect_tempo(audio) ==
    LET frames == OnsetFrames(audio.n_samples)
        min_lag == (60 * DetectorSampleRate) \div (TempoHop * 200)
        max_lag == (60 * DetectorSampleRate) \div (TempoHop * 60)
        peak_idx == Clip(audio.peak_lag, min_lag, max_lag - 1)
    IN  IF frames = 0 THEN [raised |-> TRUE, tempo |-> 0]
        ELSE IF frames > 100 /\ max_lag < frames /\ peak_idx > 0
        THEN [raised |-> FALSE,
              tempo |-> Clip((60 * DetectorSampleRate * 100)
                                \div (TempoHop * peak_idx), 6000, 20000)]
        ELSE [raised |-> FALSE, tempo |-> DefaultTempo]

\* GenreDetector._analyze_audio for a rough mix whose tempo was detected
analyze_audio(audio, tempo) ==
    LET p == audio.profile
        short == audio.n_samples - 4096 <= 0
    IN  [tempo |-> tempo,
         four_on_floor_score |->
             IF tempo < 10000 \/ tempo > 15000 THEN 0
             ELSE p.four_on_floor_score,
         sub_bass_ratio |-> IF short THEN 0 ELSE p.sub_bass_ratio,
         bass_ratio |-> IF short THEN 0 ELSE p.bass_ratio,
         mid_ratio |-> IF short THEN 0 ELSE p.mid_ratio,
         high_ratio |-> IF short THEN 0 ELSE p.high_ratio,
         brightness |-> IF short THEN 0 ELSE p.brightness,
         presence_ratio |-> IF short THEN 0 ELSE p.presence_ratio,
         crest_factor |-> p.crest_factor,
         dynamic_range_db |-> p.dynamic_range_db,
         transient_density |->
             IF (audio.n_samples \div TempoHop) - 1 <= 1 THEN 500
             ELSE p.transient_density]

\* score += points if the condition holds
Points(condition, points) == IF condition THEN points ELSE 0

\* the raw scores of _calculate_genre_scores, before normalization
RawScores(a) ==
    LET t == a.tempo
    IN  [house |->
             (IF 12000 <= t /\ t <= 12800 THEN 50
              ELSE IF 11800 <= t /\ t <= 13000 THEN 40
              ELSE IF 11500 <= t /\ t <= 13300 THEN 25 ELSE 0)
             + Points(a.bass_ratio > 150, 20)
             + Points(a.mid_ratio < 450, 15)
             + Points(a.transient_density > 250, 10)
             + Points(a.four_on_floor_score > 400, 15),
         techno |->
             (IF 12800 <= t /\ t <= 14000 THEN 45
              ELSE IF 12500 <= t /\ t <= 14500 THEN 35 ELSE 0)
             + Points(a.bass_ratio > 180, 20)
             + Points(a.mid_ratio < 400, 15)
             + Points(a.four_on_floor_score > 400, 15),
         edm |->
             (IF 12800 <= t /\ t <= 15000 THEN 40
              ELSE IF 12500 <= t /\ t <= 16000 THEN 30 ELSE 0)
             + Points(a.bass_ratio > 200, 20)
             + Points(a.crest_factor < 6000, 15)
             + Points(a.high_ratio > 100, 15),
         hiphop |->
             (IF 7500 <= t /\ t <= 9500 THEN 45
              ELSE IF 7000 <= t /\ t <= 10000 THEN 35
              ELSE IF 6500 <= t /\ t <= 11000 THEN 15 ELSE 0)
             + Points(a.sub_bass_ratio > 60, 25)
             + Points(a.bass_ratio > 250, 15),
         pop |->
             Points(10000 <= t /\ t <= 12500, 30)
             + Points(120 < a.bass_ratio /\ a.bass_ratio < 280, 20)
             + Points(250 < a.mid_ratio /\ a.mid_ratio < 450, 15)
             + Points(a.brightness > 400, 15)
             + Points(a.presence_ratio > 80, 15),
         rock |->
             Points(10000 <= t /\ t <= 14500, 10)
             + (IF a.mid_ratio > 500 THEN 30
                ELSE IF a.mid_ratio > 450 THEN 15 ELSE 0)
             + (IF a.crest_factor > 7000 THEN 25
                ELSE IF a.crest_factor > 5000 THEN 10 ELSE 0)
             + (IF a.dynamic_range_db > 180 THEN 20
                ELSE IF a.dynamic_range_db > 140 THEN 10 ELSE 0)
             + Points(a.sub_bass_ratio < 40, 15),
         rnb |->
             (IF 6500 <= t /\ t <= 9500 THEN 40
              ELSE IF 6000 <= t /\ t <= 10000 THEN 25 ELSE 0)
             + Points(150 < a.bass_ratio /\ a.bass_ratio < 280, 20)
             + Points(a.brightness < 600, 15)
             + Points(a.presence_ratio > 80, 15),
         acoustic |->
             (IF a.dynamic_range_db > 200 THEN 35
              ELSE IF a.dynamic_range_db > 160 THEN 20 ELSE 0)
             + (IF a.crest_factor > 8000 THEN 30
                ELSE IF a.crest_factor > 6000 THEN 15 ELSE 0)
             + Points(a.sub_bass_ratio < 30, 20)
             + Points(a.transient_density < 250, 15)]

RECURSIVE SumScores(_, _)
\* sum(scores.values()) from the i-th genre on
SumScores(scores, i) ==
    IF i > Len(GenreOrder) THEN 0
    ELSE scores[GenreOrder[i]] + SumScores(scores, i + 1)

\* GenreDetector._calculate_genre_scores: the raw scores divided by their
\* total when the total is positive
calculate_genre_scores(a) ==
    LET raw == RawScores(a)
        total == SumScores(raw, 1)
    IN  [g \in DOMAIN raw |->
            IF total > 0 THEN [num |-> raw[g], den |-> total]
            ELSE [num |-> raw[g], den |-> 100]]

\* x < y for two fractions with positive denominators
FracLess(x, y) == x.num * y.den < y.num * x.den

\* max(genre_scores, key=genre_scores.get): the first genre in dictionary
\* order with the highest score
BestGenre(genre_scores) ==
    LET k == CHOOSE i \in 1..Len(GenreOrder) :
                 /\ \A j \in 1..Len(GenreOrder) :
                       ~FracLess(genre_scores[GenreOrder[i]],
                                 genre_scores[GenreOrder[j]])
                 /\ \A j \in 1..(i - 1) :
                       FracLess(genre_scores[GenreOrder[j]],
                                genre_scores[GenreOrder[i]])
    IN  GenreOrder[k]

\* the tempo override of detect_genre applied to the scored result
TempoOverride(genre_scores, tempo) ==
    LET best_genre == BestGenre(genre_scores)
        confidence == genre_scores[best_genre]
        electronic == best_genre \in {"house", "techno", "edm"}
        low == FracLess(confidence, [num |-> 40, den |-> 100])
    IN  IF 11800 <= tempo /\ tempo <= 13000 /\ ~electronic
        THEN IF low
             THEN [detected_genre |-> "house",
                   confidence |-> [num |-> 45, den |-> 100],
                   all_scores |-> [genre_scores EXCEPT
                                     !["house"] = [num |-> 45, den |-> 100]]]
             ELSE [detected_genre |-> best_genre, confidence |-> confidence,
                   all_scores |-> genre_scores]
        ELSE IF 12800 <= tempo /\ tempo <= 14500 /\ ~electronic /\ low
        THEN [detected_genre |-> "techno",
              confidence |-> [num |-> 40, den |-> 100],
              all_scores |-> [genre_scores EXCEPT
                                !["techno"] = [num |-> 40, den |-> 100]]]
        ELSE [detected_genre |-> best_genre, confidence |-> confidence,
              all_scores |-> genre_scores]

\* the part of detect_genre after the tempo was detected
DetectWithTempo(audio, tempo) ==
    [raised |-> FALSE,
     tempo |-> tempo,
     raw |-> RawScores(analyze_audio(audio, tempo)),
     scored |-> calculate_genre_scores(analyze_audio(audio, tempo)),
     result |-> TempoOverride(
                    calculate_genre_scores(analyze_audio(audio, tempo)),
                    tempo)]

\* GenreDetector.detect_genre
detect_genre(audio) ==
    IF detect_tempo(audio).raised
    THEN [raised |-> TRUE, tempo |-> 0, raw |-> <<>>, scored |-> <<>>,
          result |-> <<>>]
    ELSE DetectWithTempo(audio, detect_tempo(audio).tempo)

\* one call of detect_genre on the rough mix
Detect ==
    /\ det.pc = "new"
    /\ det' = [det EXCEPT !.pc = IF detect_genre(det.audio).raised
                                 THEN "raised" ELSE "done",
                          !.out = detect_genre(det.audio)]
    /\ UNCHANGED <<mst, job, sc, cat, cls, bal, msk, rep, lod,
                 stp, bus, api>>

InitDetector ==
    /\ \E n \in MixLengths, lag \in PeakLags, p \in MixProfiles :
          det = [pc |-> "new",
                 audio |-> [n_samples |-> n, peak_lag |-> lag, profile |-> p],
                 out |-> <<>>]
    /\ mst = 0 /\ job = 0 /\ sc = 0 /\ cat = 0 /\ cls = 0
    /\ bal = 0 /\ msk = 0 /\ rep = 0 /\ lod = 0
    /\ stp = 0 /\ bus = 0 /\ api = 0

NextDetector == Detect

SpecDetector == InitDetector /\ [][NextDetector]_vars

\* the tempo lies in the house range, 118-130 BPM
InHouseRange(tempo) == 11800 <= tempo /\ tempo <= 13000

\* the tempo lies in the techno range, 128-145 BPM
InTechnoRange(tempo) == 12800 <= tempo /\ tempo <= 14500

\* the confidence of the genre that wins the scoring is below 0.40
WinnerIsWeak ==
    FracLess(det.out.scored[BestGenre(det.out.scored)],
             [num |-> 40, den |-> 100])

\* C13: when the winning genre's confidence is below 0.40 and the tempo is
\* in the house range (or the techno range), the result is house with
\* confidence at least 0.45 (or techno with at least 0.40), whichever genre
\* was winning; where the two ranges overlap either outcome is accepted
C13_WeakWinnerOverriddenByTempo ==
    (det.pc = "done" /\ WinnerIsWeak) =>
        LET r == det.out.result
            house == /\ r.detected_genre = "house"
                     /\ ~FracLess(r.confidence, [num |-> 45, den |-> 100])
            techno == /\ r.detected_genre = "techno"
                      /\ ~FracLess(r.confidence, [num |-> 40, den |-> 100])
        IN  /\ (InHouseRange(det.out.tempo)
                   /\ ~InTechnoRange(det.out.tempo)) => house
            /\ (InTechnoRange(det.out.tempo)
                   /\ ~InHouseRange(det.out.tempo)) => techno
            /\ (InHouseRange(det.out.tempo)
                   /\ InTechnoRange(det.out.tempo)) => (house \/ techno)

RECURSIVE SumScaled(_, _, _)
\* the sum of the fractions of scores from the i-th genre on, times D
SumScaled(scores, D, i) ==
    IF i > Len(GenreOrder) THEN 0
    ELSE scores[GenreOrder[i]].num * (D \div scores[GenreOrder[i]].den)
         + SumScaled(scores, D, i + 1)

\* C14: the per-genre scores a detection returns sum to 1 whenever at least
\* one raw genre score is positive
C14_ReturnedScoresSumToOne ==
    (det.pc = "done" /\ SumScores(det.out.raw, 1) > 0) =>
        LET D == 100 * SumScores(det.out.raw, 1)
        IN  SumScaled(det.out.result.all_scores, D, 1) = D

\* C15: for any input, also one shorter than an onset-analysis window, the
\* detection completes, and the tempo is the 120 BPM default when there is
\* no usable autocorrelation peak
C15_ShortInputGetsDefaultTempo ==
    det.pc # "new" =>
        /\ det.pc = "done"
        /\ OnsetFrames(det.audio.n_samples) <= 100
              => det.out.tempo = DefaultTempo

(***************************************************************************)
(* IntelligentMixBalancer (mixer/intelligent_balancer.py).  Stems are mono *)
(* sample sequences (a float file may hold samples beyond full scale);     *)
(* levels and gains are in tenths of a dB.                                 *)
(***************************************************************************)
\* IntelligentMixBalancer.reference_levels
reference_levels ==
    [kick |-> -60, bass |-> -80, snare |-> -100, drums |-> -80,
     vocal |-> -80, lead_vocal |-> -70, backing_vocal |-> -120,
     synth |-> -120, pad |-> -140, lead |-> -100, guitar |-> -110,
     piano |-> -110, strings |-> -130, fx |-> -160, other |-> -120]

\* the names of the stems handed to the balancer
BalancerStems == {"stem_1", "stem_2"}

\* the roles handed to the balancer; cowbell is not in reference_levels
BalancerRoles == {"kick", "fx", "cowbell"}

\* the sample values of the stems: silence, -50 dB, -6 dB, full scale and
\* ten times full scale
BalancerSamples == {0, 3, 500, 1000, 10000}

\* IntelligentMixBalancer._analyze_stem for a mono stem
analyze_stem(audio) ==
    [rms_db |-> LinToDb(ISqrt(SeqSumSq(audio) \div Len(audio))),
     peak_db |-> LinToDb(SeqMaxAbs(audio))]

\* the greatest rms_db of the stems
MaxRms(stems) ==
    LET levels == {analyze_stem(stems[n]).rms_db : n \in DOMAIN stems}
    IN  CHOOSE m \in levels : \A l \in levels : l <= m

\* step 3 of calculate_optimal_levels without the np.clip of the gain
stem_gain_unclipped(analysis, role, max_rms) ==
    LET target_level == IF role \in DOMAIN reference_levels
                        THEN reference_levels[role] ELSE -120
        gain_db == (max_rms + target_level) - analysis.rms_db
        quiet == IF analysis.rms_db < -600 THEN Min2(gain_db, 60)
                 ELSE gain_db
    IN  IF analysis.peak_db > -30
        THEN Min2(quiet, -(analysis.peak_db - (-60)))
        ELSE quiet

\* step 3 of calculate_optimal_levels: the gain of one stem
stem_gain(analysis, role, max_rms) ==
    LET target_level == IF role \in DOMAIN reference_levels
                        THEN reference_levels[role] ELSE -120
        gain_db == Clip((max_rms + target_level) - analysis.rms_db,
                        -240, 120)
        quiet == IF analysis.rms_db < -600 THEN Min2(gain_db, 60)
                 ELSE gain_db
    IN  IF analysis.peak_db > -30
        THEN Min2(quiet, -(analysis.peak_db - (-60)))
        ELSE quiet

\* IntelligentMixBalancer.calculate_optimal_levels
calculate_optimal_levels(stems, stem_roles) ==
    [n \in DOMAIN stems |->
        stem_gain(analyze_stem(stems[n]),
                  IF n \in DOMAIN stem_roles THEN stem_roles[n] ELSE "other",
                  MaxRms(stems))]

\* one call of calculate_optimal_levels
CalculateOptimalLevels ==
    /\ bal.pc = "new"
    /\ bal' = [bal EXCEPT
                 !.pc = "done",
                 !.optimal_gains =
                     calculate_optimal_levels(bal.stems, bal.stem_roles)]
    /\ UNCHANGED <<mst, job, sc, cat, cls, det, msk, rep, lod,
                 stp, bus, api>>

InitBalancer ==
    /\ \E names \in SUBSET BalancerStems \ {{}} :
          \E stems \in [names -> [1..2 -> BalancerSamples]],
             stem_roles \in [names -> BalancerRoles] :
              bal = [pc |-> "new", stems |-> stems,
                     stem_roles |-> stem_roles, optimal_gains |-> <<>>]
    /\ mst = 0 /\ job = 0 /\ sc = 0 /\ cat = 0 /\ cls = 0
    /\ det = 0 /\ msk = 0 /\ rep = 0 /\ lod = 0
    /\ stp = 0 /\ bus = 0 /\ api = 0

NextBalancer == CalculateOptimalLevels

SpecBalancer == InitBalancer /\ [][NextBalancer]_vars

\* C16 as stated: for every stem and every combination of RMS and peak
\* level, the gain the balancer returns lies within [-24 dB, +12 dB]
C16_GainWithinRange ==
    bal.pc = "done" =>
        \A n \in DOMAIN bal.optimal_gains :
            -240 <= bal.optimal_gains[n] /\ bal.optimal_gains[n] <= 120

\* C16 amended: the gain never exceeds +12 dB; it is at least -24 dB for
\* every stem that peaks at or below +18 dB, and for a stem that peaks
\* above +18 dB it is the cut that brings the peak to -6 dB
C16_GainWithinRangeUnlessFarOverFullScale ==
    bal.pc = "done" =>
        \A n \in DOMAIN bal.optimal_gains :
            LET peak_db == analyze_stem(bal.stems[n]).peak_db
            IN  /\ bal.optimal_gains[n] <= 120
                /\ peak_db <= 180 => bal.optimal_gains[n] >= -240
                /\ peak_db > 180 => bal.optimal_gains[n] = -(peak_db + 60)

\* the balancer returned gains for a quiet stem next to a loud one, whose
\* computed gain the clip cut down to +12 dB, and for a stem that peaks
\* above +18 dB
C16_ClippedBoostAndFarOverFullScale ==
    /\ bal.pc = "done"
    /\ \E n \in DOMAIN bal.optimal_gains :
          /\ bal.optimal_gains[n] = 120
          /\ MaxRms(bal.stems) - 120 - analyze_stem(bal.stems[n]).rms_db > 120
    /\ \E n \in DOMAIN bal.optimal_gains :
          /\ analyze_stem(bal.stems[n]).peak_db > 180
          /\ bal.optimal_gains[n] < -240

(***************************************************************************)
(* MaskingAnalyzer.analyze_masking_between_stems (analyzer/masking.py).    *)
(* The severity _detect_conflict measures for a pair of stems in a band    *)
(* depends on the audio; it is given per (stem, stem, band), in            *)
(* hundredths.  The key "s1_vs_s2" of a recommendation is the pair of the  *)
(* two names.                                                              *)
(***************************************************************************)
\* MaskingAnalyzer.critical_bands, the bands the conflict pairs use
critical_bands ==
    [kick_fundamental |-> <<40, 80>>, bass_fundamental |-> <<80, 200>>,
     vocal_fundamental |-> <<200, 800>>, presence |-> <<2000, 5000>>]

\* conflict_pairs of analyze_masking_between_stems, in order
conflict_pairs ==
    << <<"kick", "bass", "kick_fundamental">>,
       <<"kick", "bass", "bass_fundamental">>,
       <<"vocal", "synth", "vocal_fundamental">>,
       <<"vocal", "synth", "presence">>,
       <<"vocal", "guitar", "presence">>,
       <<"snare", "vocal", "presence">> >>

\* the stems of the masking model in the order of the stem_roles
\* dictionary, each with its role
MaskingStems ==
    << [name |-> "kick_01", role |-> "kick"],
       [name |-> "bass_01", role |-> "bass"],
       [name |-> "vox", role |-> "vocal"],
       [name |-> "keys", role |-> "synth"] >>

\* [n for n, r in stem_roles.items() if r == role] among the stems present
NamesOfRole(present, role) ==
    LET Keep(s) == s.role = role /\ s.name \in present
        kept == SelectSeq(MaskingStems, Keep)
    IN  [i \in 1..Len(kept) |-> kept[i].name]

\* the (stem, stem, band) triples the loops of the analysis visit, in order
RECURSIVE ConflictChecks(_, _)
ConflictChecks(present, i) ==
    IF i > Len(conflict_pairs) THEN <<>>
    ELSE LET pair == conflict_pairs[i]
             stem1_names == NamesOfRole(present, pair[1])
             stem2_names == NamesOfRole(present, pair[2])
             here == [k \in 1..(Len(stem1_names) * Len(stem2_names)) |->
                        [s1 |-> stem1_names[((k - 1) \div Len(stem2_names)) + 1],
                         s2 |-> stem2_names[((k - 1) % Len(stem2_names)) + 1],
                         role1 |-> pair[1], role2 |-> pair[2],
                         band_name |-> pair[3]]]
         IN  here \o ConflictChecks(present, i + 1)

\* the priority table of _generate_recommendation
RolePriority(role) ==
    CASE role = "kick" -> 5
      [] role = "bass" -> 4
      [] role = "vocal" -> 3
      [] role = "snare" -> 2
      [] OTHER -> 1

\* MaskingAnalyzer._generate_recommendation with its EQ entry; gain_db and
\* reduction_db in hundredths of a dB
recommendation_for(conflict, role1, role2, band_name) ==
    LET reduce_stem == IF RolePriority(role1) > RolePriority(role2)
                       THEN conflict.stem2 ELSE conflict.stem1
        preserve_stem == IF RolePriority(role1) > RolePriority(role2)
                         THEN conflict.stem1 ELSE conflict.stem2
    IN  [action |-> "sidechain_eq",
         severity |-> conflict.severity,
         reduce_stem |-> reduce_stem,
         preserve_stem |-> preserve_stem,
         eq |-> [stem |-> reduce_stem,
                 frequency |-> (conflict.freq_range[1]
                                  + conflict.freq_range[2]) \div 2,
                 gain_db |-> -2 * conflict.severity],
         sidechain |->
             IF {role1, role2} = {"kick", "bass"}
             THEN <<generate_recommendation(
                        conflict.severity,
                        IF role1 = "kick" THEN conflict.stem1
                        ELSE conflict.stem2,
                        IF role1 = "kick" THEN conflict.stem2
                        ELSE conflict.stem1).sidechain>>
             ELSE <<>>]

\* recommendations[f"{s1}_vs_{s2}"] = rec
Store(recommendations, check, rec) ==
    LET key == <<check.s1, check.s2>>
    IN  [k \in DOMAIN recommendations \cup {key} |->
            IF k = key THEN rec ELSE recommendations[k]]

RECURSIVE AnalyzeFrom(_, _, _, _)
\* the loops of analyze_masking_between_stems from the i-th check on
AnalyzeFrom(checks, severity, i, acc) ==
    IF i > Len(checks) THEN acc
    ELSE LET c == checks[i]
             conflict == [stem1 |-> c.s1, stem2 |-> c.s2,
                          freq_range |-> critical_bands[c.band_name],
                          severity |-> severity[<<c.s1, c.s2, c.band_name>>]]
         IN  IF conflict.severity > 30
             THEN AnalyzeFrom(checks, severity, i + 1,
                     [conflicts |-> Append(acc.conflicts, conflict),
                      recommendations |->
                          Store(acc.recommendations, c,
                                recommendation_for(conflict, c.role1,
                                                   c.role2, c.band_name))])
             ELSE AnalyzeFrom(checks, severity, i + 1, acc)

\* MaskingAnalyzer.analyze_masking_between_stems
analyze_masking_between_stems(present, severity) ==
    LET found == AnalyzeFrom(ConflictChecks(present, 1), severity, 1,
                             [conflicts |-> <<>>, recommendations |-> <<>>])
    IN  [conflicts |-> found.conflicts,
         recommendations |-> found.recommendations,
         conflict_count |-> Len(found.conflicts)]

\* the (stem, stem, band) triples of a stem set
ChecksOf(present) ==
    {<<c.s1, c.s2, c.band_name>> :
        c \in {ConflictChecks(present, 1)[i] :
                  i \in 1..Len(ConflictChecks(present, 1))}}

\* step 3 of MixEngine.mix: one masking analysis of the stems
AnalyzeMasking ==
    /\ msk.pc = "new"
    /\ msk' = [msk EXCEPT
                 !.pc = "done",
                 !.result = analyze_masking_between_stems(msk.present,
                                                          msk.severity)]
    /\ UNCHANGED <<mst, job, sc, cat, cls, det, bal, rep, lod,
                 stp, bus, api>>

InitMasking ==
    /\ \E present \in SUBSET {MaskingStems[i].name :
                                 i \in 1..Len(MaskingStems)} \ {{}} :
          \E severity \in [ChecksOf(present) -> SeverityLevels] :
              msk = [pc |-> "new", present |-> present,
                     severity |-> severity, result |-> <<>>]
    /\ mst = 0 /\ job = 0 /\ sc = 0 /\ cat = 0 /\ cls = 0
    /\ det = 0 /\ bal = 0 /\ rep = 0 /\ lod = 0
    /\ stp = 0 /\ bus = 0 /\ api = 0

NextMasking == AnalyzeMasking

SpecMasking == InitMasking /\ [][NextMasking]_vars

\* C17: every material conflict (severity > 0.3) of a stem pair in a band
\* has its own recommendation in the result, none is lost or replaced, and
\* the number of recommendations equals the conflict count
C17_EveryConflictKeepsItsRecommendation ==
    msk.pc = "done" =>
        /\ Cardinality(DOMAIN msk.result.recommendations)
              = msk.result.conflict_count
        /\ \A i \in 1..Len(msk.result.conflicts) :
              \E k \in DOMAIN msk.result.recommendations :
                  LET c == msk.result.conflicts[i]
                      r == msk.result.recommendations[k]
                  IN  /\ r.severity = c.severity
                      /\ r.eq.frequency
                            = (c.freq_range[1] + c.freq_range[2]) \div 2
                      /\ {r.reduce_stem, r.preserve_stem}
                            = {c.stem1, c.stem2}

(***************************************************************************)
(* The loudness report of a mix (analyzer/loudness.py, the dynamics        *)
(* analysis of the genre detector and steps 9 and 10 of MixEngine.mix).    *)
(* A float is a record: finite with a value (levels in thousandths, dB in  *)
(* tenths), or one of nan, inf, -inf.  A stem is a steady signal of a      *)
(* given level; level 0 is an all-zero stem.                               *)
(***************************************************************************)
\* AudioPipeline.sample_rate, which the loudness meter is built with
PipelineSampleRate == 48000

\* the 400 ms gating block of the meter LoudnessAnalyzer constructs; the
\* meter raises on audio shorter than one block
MeterBlockSize == (4 * PipelineSampleRate) \div 10

Finite(x) == [kind |-> "finite", v |-> x]

NaN == [kind |-> "nan", v |-> 0]

PosInf == [kind |-> "inf", v |-> 0]

NegInf == [kind |-> "-inf", v |-> 0]

IsFinite(f) == f.kind = "finite"

\* what the meter returns when no block passes the absolute gate of
\* -70 LUFS: the logarithm of an empty mean, -inf or nan with the library
\* version, never a number and never an exception
EmptyGateOutcomes == {NegInf, NaN}

\* what np.percentile does on an empty array, with the numpy version
PercentileOfEmpty == {"nan", "raises"}

\* 20 * np.log10(x + 1e-10) of a float
FloatDb(x) ==
    CASE x.kind = "finite" -> Finite(LinToDb(Abs(x.v)))
      [] x.kind = "nan" -> NaN
      [] OTHER -> PosInf

\* self.meter.integrated_loudness of a steady stereo signal
integrated_loudness(audio, empty_gate) ==
    IF audio.n_samples < MeterBlockSize
    THEN [raised |-> TRUE, value |-> NaN]
    ELSE IF /\ IsFinite(audio.level)
            /\ LinToDb(ISqrt(2 * audio.level.v * audio.level.v)) - 7 >= -700
         THEN [raised |-> FALSE,
               value |-> Finite(LinToDb(ISqrt(2 * audio.level.v
                                                * audio.level.v)) - 7)]
         ELSE [raised |-> FALSE, value |-> empty_gate]

\* audio * gain_linear with gain_linear = 10 ** (gain_db / 20)
FloatGain(level, gain_db) ==
    CASE level.kind = "nan" \/ gain_db.kind = "nan" -> NaN
      [] gain_db.kind = "-inf" -> IF IsFinite(level) THEN Finite(0) ELSE NaN
      [] gain_db.kind = "inf" ->
            IF IsFinite(level) /\ level.v = 0 THEN NaN ELSE PosInf
      [] level.kind = "finite" -> Finite(MulFix(level.v, DbToLin(gain_db.v)))
      [] OTHER -> PosInf

\* target_lufs - current_lufs
GainDb(target_lufs, current_lufs) ==
    CASE current_lufs.kind = "finite" -> Finite(target_lufs - current_lufs.v)
      [] current_lufs.kind = "-inf" -> PosInf
      [] current_lufs.kind = "inf" -> NegInf
      [] OTHER -> NaN

\* LoudnessAnalyzer.normalize_to_lufs
normalize_to_lufs(audio, target_lufs, empty_gate) ==
    LET measured == integrated_loudness(audio, empty_gate)
        normalized == FloatGain(audio.level,
                                GainDb(target_lufs, measured.value))
    IN  IF measured.raised THEN audio
        ELSE [audio EXCEPT !.level =
                 CASE normalized.kind = "finite" ->
                        IF Abs(normalized.v) > 990
                        THEN Finite(IF normalized.v > 0 THEN 990 ELSE -990)
                        ELSE normalized
                   [] normalized.kind = "nan" -> NaN
                   [] OTHER -> NaN]

\* LoudnessAnalyzer.analyze, the metrics that enter the mix report.  No
\* block of a steady signal differs from another, so the loudness range
\* is 0; max(0.0, nan) keeps the true peak of a nan buffer at 0.
analyze(audio, empty_gate) ==
    LET measured == integrated_loudness(audio, empty_gate)
        peak_dbFS == FloatDb(audio.level)
        rms_dbFS == FloatDb(audio.level)
    IN  [lufs_integrated |-> IF measured.raised THEN Finite(-700)
                             ELSE measured.value,
         lra |-> Finite(0),
         true_peak_dbTP |-> IF audio.level.kind = "nan" THEN Finite(SilenceDb)
                            ELSE FloatDb(audio.level),
         crest_factor |->
             CASE audio.level.kind = "nan" -> NaN
               [] audio.level.kind = "inf" -> NaN
               [] audio.level.v = 0 -> Finite(0)
               [] OTHER -> Finite(One),
         dynamic_range_db |->
             IF IsFinite(peak_dbFS) /\ IsFinite(rms_dbFS)
             THEN Finite(peak_dbFS.v - rms_dbFS.v) ELSE NaN]

\* GenreDetector._analyze_dynamics of the rough mix: the 10th percentile
\* is taken over the non-zero samples, of which a silent mix has none
analyze_dynamics(level, percentile_of_empty) ==
    IF level = 0 /\ percentile_of_empty = "raises"
    THEN [raised |-> TRUE, rms_db |-> Finite(SilenceDb),
          crest_factor |-> Finite(0), dynamic_range_db |-> NaN]
    ELSE [raised |-> FALSE, rms_db |-> Finite(LinToDb(level)),
          crest_factor |-> Finite(IF level = 0 THEN 0 ELSE One),
          dynamic_range_db |-> IF level = 0 THEN NaN ELSE Finite(0)]

\* the levels of the stems of the report model
ReportLevels == {0, 50, 500}

\* the lengths of the stems: below, just below, at and above one meter block
ReportLengths == {4800, MeterBlockSize - 1, MeterBlockSize, 144000}

RECURSIVE SumLevels(_)
SumLevels(stems) ==
    IF stems = <<>> THEN 0 ELSE Head(stems) + SumLevels(Tail(stems))

\* AudioPipeline._create_rough_mix: each stem and the sum scaled to its
\* peak + 1e-10, the result at 0.8 unless every stem is zero
create_rough_mix(stems) == IF SumLevels(stems) = 0 THEN 0 ELSE 800

\* stage 2 of AudioPipeline.process: genre detection on the rough mix;
\* an exception of the detector ends the job
ReportDetect ==
    /\ rep.pc = "loaded"
    /\ \E p \in PercentileOfEmpty :
          LET dynamics == analyze_dynamics(create_rough_mix(rep.stems), p)
          IN  rep' = [rep EXCEPT
                        !.pc = IF dynamics.raised THEN "failed"
                               ELSE "detected",
                        !.dynamics = dynamics]
    /\ UNCHANGED <<mst, job, sc, cat, cls, det, bal, msk, lod,
                 stp, bus, api>>

\* steps 7 to 9 of MixEngine.mix: the stems summed and normalised
ReportNormalize ==
    /\ rep.pc = "detected"
    /\ \E g \in EmptyGateOutcomes :
          rep' = [rep EXCEPT
                    !.pc = "normalized",
                    !.mix = normalize_to_lufs(
                               [level |-> Finite(SumLevels(rep.stems)),
                                n_samples |-> rep.n_samples],
                               rep.target_lufs, g)]
    /\ UNCHANGED <<mst, job, sc, cat, cls, det, bal, msk, lod,
                 stp, bus, api>>

\* step 10 of MixEngine.mix and the final_metrics of its report
ReportAnalyze ==
    /\ rep.pc = "normalized"
    /\ \E g \in EmptyGateOutcomes :
          rep' = [rep EXCEPT !.pc = "done",
                             !.final_metrics = analyze(rep.mix, g)]
    /\ UNCHANGED <<mst, job, sc, cat, cls, det, bal, msk, lod,
                 stp, bus, api>>

InitReport ==
    /\ \E n \in 1..MaxStems, len \in ReportLengths, g \in GenreSet :
          \E stems \in [1..n -> ReportLevels] :
              rep = [pc |-> "loaded", stems |-> stems, n_samples |-> len,
                     target_lufs |-> get_mastering_preset(g).target_lufs,
                     dynamics |-> analyze_dynamics(One, "nan"),
                     mix |-> [level |-> Finite(0), n_samples |-> len],
                     final_metrics |->
                         analyze([level |-> Finite(One), n_samples |-> len],
                                 NegInf)]
    /\ mst = 0 /\ job = 0 /\ sc = 0 /\ cat = 0 /\ cls = 0
    /\ det = 0 /\ bal = 0 /\ msk = 0 /\ lod = 0
    /\ stp = 0 /\ bus = 0 /\ api = 0

NextReport == ReportDetect \/ ReportNormalize \/ ReportAnalyze

SpecReport == InitReport /\ [][NextReport]_vars

\* every stem of the job is all-zero
AllSilent == \A i \in 1..Len(rep.stems) : rep.stems[i] = 0

\* C18: an all-zero stem set is processed without an exception and its
\* report holds only finite values, with lufs_integrated at -70 LUFS
C18_SilentStemsGiveFiniteReport ==
    (AllSilent /\ rep.pc \in {"done", "failed"}) =>
        /\ rep.pc = "done"
        /\ \A m \in DOMAIN rep.final_metrics :
              IsFinite(rep.final_metrics[m])
        /\ rep.final_metrics.lufs_integrated = Finite(-700)

(***************************************************************************)
(* From the uploaded files to the stems of the mix: the upload endpoint    *)
(* (main.py), the download loop of process_audio_job                       *)
(* (tasks/audio_processor.py) and AudioPipeline._load_stems.  A file name  *)
(* is a base name and an extension; the content of the i-th uploaded file  *)
(* is i.                                                                   *)
(***************************************************************************)
\* the most files in one upload
MaxFiles == 3

\* base names of the uploaded files
BaseNames == {"kick", "bass"}

\* two of the extensions the upload endpoint accepts
Extensions == {"wav", "flac"}

RECURSIVE StoreAll(_, _, _)
\* the writes of a loop into a dictionary, a bucket or a directory: a later
\* write under the same key replaces the earlier one
StoreAll(keys, values, i) ==
    IF i = 0 THEN <<>>
    ELSE LET before == StoreAll(keys, values, i - 1)
         IN  [k \in DOMAIN before \cup {keys[i]} |->
                 IF k = keys[i] THEN values[i] ELSE before[k]]

\* f"{job_id}/{file.filename}" and url.split('/')[-1]: the file's own name
FileName(file) == <<file.base, file.ext>>

\* Path(file_path).stem: the name without its extension
PathStem(file_name) == file_name[1]

\* upload_stems: every file stored in the input bucket under its name
upload_stems(uploaded) ==
    [bucket |-> StoreAll([i \in 1..Len(uploaded) |-> FileName(uploaded[i])],
                         [i \in 1..Len(uploaded) |-> i], Len(uploaded)),
     stem_urls |-> [i \in 1..Len(uploaded) |-> FileName(uploaded[i])]]

\* the download loop of process_audio_job: each url's object written to
\* temp_dir under the url's last component
download_stems(bucket, stem_urls) ==
    [temp_dir |-> StoreAll(stem_urls,
                           [i \in 1..Len(stem_urls) |-> bucket[stem_urls[i]]],
                           Len(stem_urls)),
     stem_files |-> stem_urls]

\* AudioPipeline._load_stems: stems[Path(file_path).stem] = audio
load_stems(temp_dir, stem_files) ==
    StoreAll([i \in 1..Len(stem_files) |-> PathStem(stem_files[i])],
             [i \in 1..Len(stem_files) |-> temp_dir[stem_files[i]]],
             Len(stem_files))

UploadFiles ==
    /\ lod.pc = "new"
    /\ lod' = [lod EXCEPT
                 !.pc = "queued",
                 !.bucket = upload_stems(lod.uploaded).bucket,
                 !.stem_urls = upload_stems(lod.uploaded).stem_urls]
    /\ UNCHANGED <<mst, job, sc, cat, cls, det, bal, msk, rep,
                 stp, bus, api>>

DownloadFiles ==
    /\ lod.pc = "queued"
    /\ lod' = [lod EXCEPT
                 !.pc = "downloaded",
                 !.temp_dir = download_stems(lod.bucket,
                                             lod.stem_urls).temp_dir,
                 !.stem_files = download_stems(lod.bucket,
                                               lod.stem_urls).stem_files]
    /\ UNCHANGED <<mst, job, sc, cat, cls, det, bal, msk, rep,
                 stp, bus, api>>

LoadFiles ==
    /\ lod.pc = "downloaded"
    /\ lod' = [lod EXCEPT
                 !.pc = "loaded",
                 !.stems = load_stems(lod.temp_dir, lod.stem_files)]
    /\ UNCHANGED <<mst, job, sc, cat, cls, det, bal, msk, rep,
                 stp, bus, api>>

InitLoader ==
    /\ \E n \in 1..MaxFiles :
          \E uploaded \in [1..n -> [base : BaseNames, ext : Extensions]] :
              lod = [pc |-> "new", uploaded |-> uploaded, bucket |-> <<>>,
                     stem_urls |-> <<>>, temp_dir |-> <<>>,
                     stem_files |-> <<>>, stems |-> <<>>]
    /\ mst = 0 /\ job = 0 /\ sc = 0 /\ cat = 0 /\ cls = 0
    /\ det = 0 /\ bal = 0 /\ msk = 0 /\ rep = 0
    /\ stp = 0 /\ bus = 0 /\ api = 0

NextLoader == UploadFiles \/ DownloadFiles \/ LoadFiles

SpecLoader == InitLoader /\ [][NextLoader]_vars

\* C19: every input file yields its own stem: the number of stems entering
\* the mix equals the number of input files, and no file's audio is
\* replaced by that of another file with the same base name
C19_EveryFileYieldsItsOwnStem ==
    lod.pc = "loaded" =>
        /\ Cardinality(DOMAIN lod.stems) = Len(lod.uploaded)
        /\ \A i \in 1..Len(lod.uploaded) :
              \E name \in DOMAIN lod.stems : lod.stems[name] = i

(***************************************************************************)
(* The iterative end of the pro and ozone chains: _final_loudness_match    *)
(* (ProMatch, mst.iter counts its gain adjustments) and                    *)
(* ensure_true_peak_ceiling (OzoneEnsure).                                 *)
(***************************************************************************)
\* C21: iterative true-peak enforcement makes at most 3 gain adjustments
\* and the audio it returns does not peak above the ceiling
C21_PeakWithinCeilingAfterEnforcement ==
    (mst.engine \in {"pro", "ozone"} /\ mst.pc = "done") =>
        /\ mst.iter <= 3
        /\ Peak(mst.audio) <= DbToLin(mst.ceiling_db)

(***************************************************************************)
(* Step 4 of MixEngine.mix: every stem through StemProcessor.process       *)
(* (mixer/stem_processor.py), its parametric EQ (mixer/effects/eq.py) and  *)
(* its panning angle (presets/instrument_presets.py).  EQ gains are in     *)
(* tenths of a dB, angles in degrees.  The audio of a stem is represented  *)
(* by the list of the filters that were run on it.                         *)
(***************************************************************************)
\* the most stems of one mix in the stem-processing model
MaxTracks == 3

\* roles of the stems: catalog keys, an alias of hihat and an unknown role
TrackRoles == {"kick", "hihat", "pad", "cymbal", "banjo"}

\* eq_settings of a catalog entry: band_1 .. band_6 as <<gain, centre_freq>>
EqSettings(b1, b2, b3, b4, b5, b6) ==
    [k \in 1..6 |->
        LET b == <<b1, b2, b3, b4, b5, b6>>[k]
        IN  [gain |-> b[1], centre_freq |-> b[2]]]

\* get_instrument_preset(role) for the roles of the model: the
\* panning_angle and eq_settings of the entry it returns
track_preset(role) ==
    CASE role = "kick" ->
           [panning_angle |-> 0,
            eq_settings |-> EqSettings(<<4, 50>>, <<-4, 200>>, <<-2, 500>>,
                                       <<3, 3000>>, <<0, 6000>>,
                                       <<-6, 12000>>)]
      [] role \in {"hihat", "cymbal"} ->
           [panning_angle |-> 25,
            eq_settings |-> EqSettings(<<-8, 60>>, <<-3, 250>>, <<1, 1500>>,
                                       <<3, 4000>>, <<4, 8000>>,
                                       <<3, 14000>>)]
      [] role = "pad" ->
           [panning_angle |-> 0,
            eq_settings |-> EqSettings(<<-8, 100>>, <<-3, 300>>, <<1, 800>>,
                                       <<2, 2500>>, <<3, 6000>>,
                                       <<2, 12000>>)]
      [] OTHER ->
           [panning_angle |-> 0,
            eq_settings |-> EqSettings(<<-2, 80>>, <<-1, 300>>, <<0, 800>>,
                                       <<1, 2500>>, <<1, 6000>>,
                                       <<0, 12000>>)]

\* PANNING_STRATEGIES['electronic'].get(role, 0)
table_panning(role) ==
    CASE role = "hihat" -> 25
      [] role = "cymbal" -> -25
      [] role = "pad" -> -15
      [] OTHER -> 0

\* get_panning_angle with genre 'electronic'
get_panning_angle(role, track_index) ==
    IF track_index % 2 = 1 /\ table_panning(role) # 0
    THEN -table_panning(role) ELSE table_panning(role)

\* StemProcessor.convert_roex_eq_to_bands followed by the 60% scaling
convert_roex_eq_to_bands(eq_settings) ==
    [k \in 1..Len(eq_settings) |->
        [type |-> "peaking", frequency |-> eq_settings[k].centre_freq,
         gain |-> eq_settings[k].gain * 6]]

\* the band types StudioEQ.process builds a filter for
EqFilterTypes == {"peak", "low_shelf", "high_shelf", "highpass", "lowpass"}

\* StudioEQ.process: the filters it runs on the audio, in band order
eq_process(bands) ==
    LET Runs(band) ==
            /\ ~(Abs(band.gain) < 1
                   /\ band.type \in {"peak", "low_shelf", "high_shelf"})
            /\ band.type \in EqFilterTypes
    IN  SelectSeq(bands, Runs)

\* StemProcessor.process: the EQ it ran and the panning angle it returns
process_stem(role, track_index) ==
    LET preset == track_preset(role)
    IN  [role |-> role,
         eq |-> eq_process(convert_roex_eq_to_bands(preset.eq_settings)),
         panning_angle |-> IF preset.panning_angle = 0
                           THEN get_panning_angle(role, track_index)
                           ELSE preset.panning_angle]

\* one turn of the loop over the stems in MixEngine.mix: process is called
\* without a genre and without a track index, so both take their defaults
ProcessTrack ==
    /\ Len(stp.results) < Len(stp.stems)
    /\ stp' = [stp EXCEPT !.results =
                  Append(@, process_stem(stp.stems[Len(stp.results) + 1], 0))]
    /\ UNCHANGED <<mst, job, sc, cat, cls, det, bal, msk, rep, lod, bus, api>>

InitTracks ==
    /\ \E n \in 1..MaxTracks :
          \E stems \in [1..n -> TrackRoles] :
              stp = [stems |-> stems, results |-> <<>>]
    /\ mst = 0 /\ job = 0 /\ sc = 0 /\ cat = 0 /\ cls = 0
    /\ det = 0 /\ bal = 0 /\ msk = 0 /\ rep = 0 /\ lod = 0
    /\ bus = 0 /\ api = 0

NextTracks == ProcessTrack

SpecTracks == InitTracks /\ [][NextTracks]_vars

\* C22: every band of a processed stem's preset whose gain is not
\* negligible has been run on the stem's audio, at 60% of its gain
C22_PresetBandsApplied ==
    \A i \in 1..Len(stp.results) :
        LET eq_settings == track_preset(stp.stems[i]).eq_settings
        IN  \A k \in 1..Len(eq_settings) :
                eq_settings[k].gain # 0 =>
                    \E f \in 1..Len(stp.results[i].eq) :
                        /\ stp.results[i].eq[f].frequency
                              = eq_settings[k].centre_freq
                        /\ stp.results[i].eq[f].gain
                              = eq_settings[k].gain * 6

\* C23: consecutive processed stems of the same role whose table pan angle
\* is not zero get angles of opposite sign
C23_DuplicatesAlternate ==
    \A i, j \in 1..Len(stp.results) :
        (/\ i < j
         /\ stp.stems[i] = stp.stems[j]
         /\ table_panning(stp.stems[i]) # 0
         /\ \A k \in (i + 1)..(j - 1) : stp.stems[k] # stp.stems[i])
        => stp.results[i].panning_angle * stp.results[j].panning_angle < 0

(***************************************************************************)
(* The order of the applications of SidechainMatrix.apply_sidechains.      *)
(* The call is followed on four mono stems, one of which (the vocal) is    *)
(* both the target of a rule and the source of another.  A buffer of       *)
(* processed_stems is its original samples and the gain reduction          *)
(* accumulated on it (thousandths of a dB per sample): the product of the  *)
(* gains of several applications is the sum of their reductions.           *)
(***************************************************************************)
\* the stems of the model in the order of the stem_roles mapping
RoutedStems ==
    << [name |-> "kick_01", role |-> "kick"],
       [name |-> "snare_01", role |-> "snare"],
       [name |-> "vox", role |-> "vocal"],
       [name |-> "pad_01", role |-> "synth"] >>

\* the buffers a stem of the model can hold
RoutedBuffers ==
    {[i \in 1..SideLen |-> 300],
     [i \in 1..SideLen |-> IF i = 1 THEN 900 ELSE 60],
     [i \in 1..SideLen |-> 0]}

\* [name for name, role in stem_roles.items() if role == wanted]
RoutedNames(wanted) ==
    LET kept == SelectSeq(RoutedStems, LAMBDA s : s.role = wanted)
    IN  [i \in 1..Len(kept) |-> kept[i].name]

RECURSIVE RoutedApplications(_)
\* the (source, target, settings) applications of the rule loop from rule
\* i on, in the order of the code
RoutedApplications(i) ==
    IF i > Len(sidechain_rules) THEN <<>>
    ELSE LET rule == sidechain_rules[i]
             S == RoutedNames(rule.source)
             T == RoutedNames(rule.target)
         IN  [k \in 1..(Len(S) * Len(T)) |->
                 [source |-> S[((k - 1) \div Len(T)) + 1],
                  target |-> T[((k - 1) % Len(T)) + 1],
                  filtered |-> rule.filtered,
                  threshold_db |-> rule.threshold_db, ratio |-> rule.ratio,
                  attack_ms |-> rule.attack_ms,
                  release_ms |-> rule.release_ms]]
             \o RoutedApplications(i + 1)

\* the samples of a buffer of processed_stems
DuckedSamples(buffer) == SidechainOutput(buffer.samples, buffer.reduction_db)

\* sidechain=processed_stems[source_name]: the source as ducked so far
sidechain_of_processed(stems, processed, source) ==
    DuckedSamples(processed[source])

\* sidechain=stems[source_name]: the source as it was passed in
sidechain_of_stems(stems, processed, source) == stems[source]

RECURSIVE ApplyInOrder(_, _, _, _, _)
\* the applications apps[order[k]], k = i .. Len(order), one after the
\* other: each reads its sidechain, computes the reduction and stores the
\* ducked target in processed_stems
ApplyInOrder(apps, order, i, stems, acc) ==
    IF i > Len(order) THEN acc
    ELSE LET a == apps[order[i]]
             sidechain == sidechain_of_stems(stems, acc.processed, a.source)
             red == SidechainReduction(sidechain, a).gain_reduction_db
             after == [acc.processed EXCEPT
                         ![a.target].reduction_db =
                             [n \in 1..SideLen |-> @[n] + red[n]]]
         IN  ApplyInOrder(apps, order, i + 1, stems,
                 [processed |-> after,
                  log |-> Append(acc.log,
                             [source |-> a.source, target |-> a.target,
                              sidechain |-> sidechain,
                              written |-> {n \in DOMAIN after :
                                             after[n] # acc.processed[n]}])])

\* apply_sidechains(stems, stem_roles) with its applications taken in the
\* given order: processed_stems = stems.copy(), then the applications
routed_sidechains(stems, order) ==
    ApplyInOrder(RoutedApplications(1), order, 1, stems,
                 [processed |-> [n \in DOMAIN stems |->
                                    [samples |-> stems[n],
                                     reduction_db |-> [k \in 1..SideLen |-> 0]]],
                  log |-> <<>>])

\* the orders in which n applications can be taken
OrdersOfApplications(n) ==
    {p \in [1..n -> 1..n] : \A i, j \in 1..n : i # j => p[i] # p[j]}

\* one call of apply_sidechains with its applications in the order sc.order
ApplyRouted ==
    /\ sc.pc = "new"
    /\ sc' = [sc EXCEPT
                !.pc = "done",
                !.result = routed_sidechains(sc.stems, sc.order)]
    /\ UNCHANGED <<mst, job, cat, cls, analyzers>>

InitRouting ==
    /\ \E stems \in [{RoutedStems[i].name : i \in 1..Len(RoutedStems)}
                        -> RoutedBuffers],
          order \in OrdersOfApplications(Len(RoutedApplications(1))) :
          sc = [pc |-> "new", stems |-> stems, order |-> order,
                result |-> [processed |-> <<>>, log |-> <<>>]]
    /\ mst = 0 /\ job = 0 /\ cat = 0 /\ cls = 0 /\ AnalyzersIdle

NextRouting == ApplyRouted

SpecRouting == InitRouting /\ [][NextRouting]_vars

\* the order of the code
CodeOrder == [i \in 1..Len(RoutedApplications(1)) |-> i]

\* C24: every application reads its sidechain from the stems as they were
\* passed in, writes at most its own target, and the result for every
\* target is the one the order of the code gives
C24_ResultIndependentOfOrder ==
    sc.pc = "done" =>
        /\ \A k \in 1..Len(sc.result.log) :
              /\ sc.result.log[k].sidechain = sc.stems[sc.result.log[k].source]
              /\ sc.result.log[k].written \subseteq {sc.result.log[k].target}
        /\ \A n \in DOMAIN sc.stems :
              DuckedSamples(sc.result.processed[n])
                 = DuckedSamples(routed_sidechains(sc.stems,
                                                   CodeOrder).processed[n])

\* a call in another order than the code's in which the vocal, the source
\* of the synth's ducking, was itself ducked by the snare before it was
\* read, and the synth was ducked by both its sources
C24_SourceDuckedBeforeItIsRead ==
    /\ sc.pc = "done"
    /\ sc.order # CodeOrder
    /\ \E j, k \in 1..Len(sc.result.log) :
          /\ j < k
          /\ sc.result.log[j].target = "vox"
          /\ sc.result.log[j].written = {"vox"}
          /\ sc.result.log[k].source = "vox"
          /\ sc.result.log[k].written = {"pad_01"}
    /\ DuckedSamples(sc.result.processed["vox"]) # sc.stems["vox"]

(***************************************************************************)
(* BusProcessor.create_buses: the stems are grouped into the drum, music   *)
(* and vocal buses by role.  A bus of the model keeps the names of the     *)
(* stems grouped into it and the sum of their audio, the input of its      *)
(* processing chain.                                                       *)
(***************************************************************************)
drum_roles == {"kick", "snare", "hihat", "drums", "percussion"}

vocal_roles == {"vocal", "lead_vocal", "backing_vocal", "vox"}

\* the stems of a mix and the one-sample audio of each
BusStemNames == {"s1", "s2", "s3"}

BusStemAudio == [s1 |-> 100, s2 |-> 200, s3 |-> 400]

\* the roles a stem of the model can have; "banjo" is a role no table knows
BusRoles == {"kick", "drums", "vox", "backing_vocal", "bass", "banjo"}

\* the grouping loop with the elif written as a second if
bus_of_role_twice(role) ==
    (IF role \in drum_roles THEN {"drums"} ELSE {})
        \cup (IF role \in vocal_roles THEN {"vocals"} ELSE {"music"})

\* the if / elif / else of the grouping loop
bus_of_role(role) ==
    IF role \in drum_roles THEN {"drums"}
    ELSE IF role \in vocal_roles THEN {"vocals"}
    ELSE {"music"}

\* stem_roles.get(name, 'other')
role_or_other(stem_roles, name) ==
    IF name \in DOMAIN stem_roles THEN stem_roles[name] ELSE "other"

RECURSIVE SumAudio(_, _)
\* sum(stems.values()) over the stems named in names
SumAudio(stems, names) ==
    IF names = {} THEN 0
    ELSE LET n == CHOOSE x \in names : TRUE
         IN  stems[n] + SumAudio(stems, names \ {n})

\* create_buses(stems, stem_roles): the buses that got a stem
create_buses(stems, stem_roles) ==
    LET grouped(b) == {n \in DOMAIN stems :
                          b \in bus_of_role(role_or_other(stem_roles, n))}
        made == {b \in {"drums", "music", "vocals"} : grouped(b) # {}}
    IN  [b \in made |-> [stems |-> grouped(b),
                         audio |-> SumAudio(stems, grouped(b))]]

\* step 6 of MixEngine.mix
CreateBuses ==
    /\ bus.pc = "new"
    /\ bus' = [bus EXCEPT !.pc = "done",
                          !.buses = create_buses(bus.stems, bus.stem_roles)]
    /\ UNCHANGED <<mst, job, sc, cat, cls, det, bal, msk, rep, lod, stp, api>>

InitBuses ==
    /\ \E present \in SUBSET BusStemNames :
          \E known \in SUBSET present :
             \E stem_roles \in [known -> BusRoles] :
                bus = [pc |-> "new",
                       stems |-> [n \in present |-> BusStemAudio[n]],
                       stem_roles |-> stem_roles,
                       buses |-> <<>>]
    /\ mst = 0 /\ job = 0 /\ sc = 0 /\ cat = 0 /\ cls = 0 /\ det = 0
    /\ bal = 0 /\ msk = 0 /\ rep = 0 /\ lod = 0 /\ stp = 0 /\ api = 0

NextBuses == CreateBuses

SpecBuses == InitBuses /\ [][NextBuses]_vars

\* C25: after create_buses every stem is in exactly one of the buses, and
\* the buses hold no audio but that of their stems
C25_EveryStemInExactlyOneBus ==
    bus.pc = "done" =>
        /\ DOMAIN bus.buses \subseteq {"drums", "music", "vocals"}
        /\ \A n \in DOMAIN bus.stems :
              Cardinality({b \in DOMAIN bus.buses :
                              n \in bus.buses[b].stems}) = 1
        /\ \A b \in DOMAIN bus.buses :
              /\ bus.buses[b].stems \subseteq DOMAIN bus.stems
              /\ bus.buses[b].audio = SumAudio(bus.stems, bus.buses[b].stems)
        /\ SumAudio([b \in DOMAIN bus.buses |-> bus.buses[b].audio],
                    DOMAIN bus.buses)
              = SumAudio(bus.stems, DOMAIN bus.stems)

\* buses were created for a drum stem, a vocal stem and a stem whose role
\* is unknown or missing from stem_roles
C25_AllThreeBusesWithUnknownRole ==
    /\ bus.pc = "done"
    /\ DOMAIN bus.buses = {"drums", "music", "vocals"}
    /\ \E n \in DOMAIN bus.stems :
          \/ n \notin DOMAIN bus.stem_roles
          \/ bus.stem_roles[n] = "banjo"

(***************************************************************************)
(* The job API: the upload, status, download and delete endpoints of       *)
(* main.py, the jobs dictionary they share, and the Celery task            *)
(* process_audio_job a worker runs beside them.  One job is followed.      *)
(* The task's state in the result backend is what update_state last        *)
(* stored; when the task function returns, Celery stores the state         *)
(* SUCCESS with the returned value as the result.  task_track_started      *)
(* makes the worker store STARTED when it picks the task up.               *)
(***************************************************************************)
\* the requests the log keeps
MaxRequests == 2

\* the id uuid4 gives the job of the model
JobId == "job-1"

\* dict.get(key, default)
DictGet(d, key, default) == IF key \in DOMAIN d THEN d[key] ELSE default

\* dict.update(other): every key of other is set
JobUpdate(d, other) ==
    [k \in DOMAIN d \cup DOMAIN other |->
        IF k \in DOMAIN other THEN other[k] ELSE d[k]]

\* the methods class B2Client defines
B2ClientMethods ==
    {"upload_file", "download_file", "get_download_url", "delete_file",
     "list_files"}

\* the progress values AudioPipeline.process hands to its callback, with
\* their stages
PipelineProgress ==
    << [progress |-> 0, stage |-> "Loading stems..."],
       [progress |-> 10, stage |-> "Analyzing genre..."],
       [progress |-> 25, stage |-> "Mixing..."],
       [progress |-> 60, stage |-> "Mastering..."],
       [progress |-> 90, stage |-> "Exporting files..."],
       [progress |-> 100, stage |-> "Complete!"] >>

\* progress_callback: celery_progress = 15 + int(progress * 0.75)
progress_callback(progress) == 15 + ((progress * 75) \div 100)

\* the meta of the update_state calls of a job that runs to its end on n
\* stems, in the order they are made
ProgressUpdates(n) ==
    << [progress |-> 0, stage |-> "initializing"],
       [progress |-> 0, stage |-> "downloading"] >>
    \o [i \in 1..n |-> [progress |-> (i * 15) \div n,
                        stage |-> "downloading"]]
    \o << [progress |-> 15, stage |-> "processing"] >>
    \o [k \in 1..Len(PipelineProgress) |->
           [progress |-> progress_callback(PipelineProgress[k].progress),
            stage |-> PipelineProgress[k].stage]]
    \o << [progress |-> 90, stage |-> "uploading"],
          [progress |-> 92, stage |-> "uploading"],
          [progress |-> 94, stage |-> "uploading"],
          [progress |-> 95, stage |-> "finalizing"],
          [progress |-> 100, stage |-> "complete"] >>

\* where the processing of a job can raise
FailPoints == {"never", "download", "mixing", "upload"}

\* the number of update_state calls made before the error is raised: by
\* the first download, by MixEngine.mix, by the upload of the mix
FailPosition(fails, n) ==
    CASE fails = "download" -> 2
      [] fails = "mixing" -> 2 + n + 1 + 3
      [] fails = "upload" -> 2 + n + 1 + Len(PipelineProgress) + 1
      [] OTHER -> Len(ProgressUpdates(n)) + 1

\* the loudness and true peak a master can measure at (tenths of a dB)
MeasuredOutputs ==
    {[lufs |-> -90, peak |-> -3], [lufs |-> -160, peak |-> -20]}

\* the report AudioPipeline.process returns
pipeline_report(measured) ==
    [success |-> TRUE,
     genre |-> [detected |-> "techno", name |-> "Techno", confidence |-> 100],
     master_report |-> [output_lufs |-> measured.lufs,
                        output_peak |-> measured.peak,
                        gain_applied |-> 0,
                        platform |-> "spotify"],
     timing |-> [total_seconds |-> 1]]

\* the report_summary of the task's result
report_summary(report, n) ==
    LET master_report == DictGet(report, "master_report", <<>>)
        genre == DictGet(report, "genre", <<>>)
    IN  [processing_time |->
             DictGet(DictGet(report, "timing", <<>>), "total_seconds", 0),
         stem_count |-> n,
         final_lufs |->
             DictGet(DictGet(master_report, "final_metrics", <<>>),
                     "lufs", -140),
         true_peak_dbTP |->
             DictGet(DictGet(master_report, "final_metrics", <<>>),
                     "true_peak_dbTP", -10),
         mono_compatible |->
             DictGet(DictGet(master_report, "mono_compatibility", <<>>),
                     "mono_compatible", TRUE),
         qc_passed |->
             DictGet(DictGet(master_report, "qc_results", <<>>),
                     "all_safe", TRUE),
         genre |-> DictGet(genre, "name", "Unknown"),
         genre_confidence |-> DictGet(genre, "confidence", 0)]

\* what process_audio_job returns at the end of its try block
complete_result(report, n) ==
    [status |-> "complete", job_id |-> JobId, completed_at |-> "now",
     download_url |-> "master.wav", mp3_url |-> "master.mp3",
     report_summary |-> report_summary(report, n)]

\* what process_audio_job returns from its except block
failed_result(fails) ==
    [status |-> "failed", error |-> fails, error_type |-> "Exception",
     job_id |-> JobId, failed_at |-> "now"]

\* AsyncResult(task_id).state and .info can raise or answer when the
\* state FAILURE was stored with a meta that is no exception
QueryOutcomes(task) ==
    IF task.state = "FAILURE" THEN {"answers", "raises"} ELSE {"answers"}

\* status = job.get("status", "queued"), progress = job.get("progress", 0)
stored_status(rec) ==
    [status |-> DictGet(rec, "status", "queued"),
     progress |-> DictGet(rec, "progress", 0),
     rec |-> rec]

\* the branches of get_job_status on the state of the task
status_of_task(rec, task, outcome) ==
    IF outcome = "raises" THEN stored_status(rec)
    ELSE CASE task.state = "PENDING" ->
                 [status |-> "queued", progress |-> 0, rec |-> rec]
           [] task.state = "PROGRESS" ->
                 [status |-> "processing",
                  progress |-> DictGet(task.info, "progress", 0),
                  rec |-> rec]
           [] task.state = "SUCCESS" ->
                 [status |-> "complete", progress |-> 100,
                  rec |-> JobUpdate(rec, task.info)]
           [] task.state = "FAILURE" ->
                 [status |-> "failed", progress |-> 0,
                  rec |-> JobUpdate(rec, [error |-> task.info.error])]
           [] OTHER -> stored_status(rec)

\* GET /api/status/{job_id}: the answer and the jobs dictionary it leaves
get_job_status(jobs, task, outcome) ==
    IF JobId \notin DOMAIN jobs
    THEN [code |-> 404, body |-> [detail |-> "Job not found"], jobs |-> jobs]
    ELSE LET seen == status_of_task(jobs[JobId], task, outcome)
             response == [job_id |-> JobId, status |-> seen.status,
                          progress |-> seen.progress]
             complete == IF \/ seen.status = "complete"
                            \/ DictGet(seen.rec, "status", "") = "complete"
                         THEN [download_url |->
                                   DictGet(seen.rec, "download_url", "None")]
                         ELSE <<>>
             failed == IF \/ seen.status = "failed"
                          \/ DictGet(seen.rec, "status", "") = "error"
                       THEN [error |-> DictGet(seen.rec, "error",
                                               "Processing failed")]
                       ELSE <<>>
         IN  [code |-> 200,
              body |-> JobUpdate(JobUpdate(response, complete), failed),
              jobs |-> [jobs EXCEPT ![JobId] = seen.rec]]

\* GET /api/download/{job_id}
get_download_url(jobs) ==
    IF JobId \notin DOMAIN jobs
    THEN [code |-> 404, body |-> [detail |-> "Job not found"], jobs |-> jobs]
    ELSE IF jobs[JobId].status # "complete"
    THEN [code |-> 400, body |-> [detail |-> "Job not complete"],
          jobs |-> jobs]
    ELSE [code |-> 200, body |-> [download_url |-> "master.wav"],
          jobs |-> jobs]

\* DELETE /api/job/{job_id}: a call of a method the client does not define
\* raises AttributeError, which the server answers with 500
delete_job(jobs) ==
    IF JobId \notin DOMAIN jobs
    THEN [code |-> 404, body |-> [detail |-> "Job not found"], jobs |-> jobs]
    ELSE IF "delete_folder" \notin B2ClientMethods
    THEN [code |-> 500, body |-> [detail |-> "Internal Server Error"],
          jobs |-> jobs]
    ELSE [code |-> 200, body |-> [message |-> "Job deleted successfully"],
          jobs |-> [k \in DOMAIN jobs \ {JobId} |-> jobs[k]]]

\* a request is served: its answer is logged with the worker's position at
\* that time, and the jobs dictionary is left as the endpoint leaves it
Serve(endpoint, answer) ==
    /\ Len(api.log) < MaxRequests
    /\ api' = [api EXCEPT
                 !.jobs = answer.jobs,
                 !.log = Append(@, [endpoint |-> endpoint,
                                    code |-> answer.code,
                                    body |-> answer.body,
                                    known |-> JobId \in DOMAIN api.jobs,
                                    worker |-> api.pc])]
    /\ UNCHANGED <<mst, job, sc, cat, cls, det, bal, msk, rep, lod, stp, bus>>

\* POST /api/upload: the task is queued and the job record created
SubmitJob ==
    /\ api.pc = "idle"
    /\ \E n \in 1..MaxFiles, fails \in FailPoints,
          measured \in MeasuredOutputs :
          api' = [api EXCEPT
                    !.pc = "queued",
                    !.n = n, !.fails = fails, !.measured = measured,
                    !.task = [state |-> "PENDING", info |-> <<>>],
                    !.jobs = [k \in {JobId} |->
                                 [status |-> "queued", progress |-> 0,
                                  created_at |-> "now", stem_count |-> n,
                                  task_id |-> "task-1"]]]
    /\ UNCHANGED <<mst, job, sc, cat, cls, det, bal, msk, rep, lod, stp, bus>>

\* a worker picks the task up
WorkerStart ==
    /\ api.pc = "queued"
    /\ api' = [api EXCEPT !.pc = "running", !.pos = 0,
                          !.task = [state |-> "STARTED", info |-> <<>>]]
    /\ UNCHANGED <<mst, job, sc, cat, cls, det, bal, msk, rep, lod, stp, bus>>

\* the work up to the next update_state call, and that call
WorkerUpdate ==
    /\ api.pc = "running"
    /\ api.pos < Len(ProgressUpdates(api.n))
    /\ api.pos # FailPosition(api.fails, api.n)
    /\ api' = [api EXCEPT
                 !.pos = @ + 1,
                 !.task = [state |-> "PROGRESS",
                           info |-> ProgressUpdates(api.n)[api.pos + 1]]]
    /\ UNCHANGED <<mst, job, sc, cat, cls, det, bal, msk, rep, lod, stp, bus>>

\* the work raises: the except block stores the state FAILURE
WorkerFail ==
    /\ api.pc = "running"
    /\ api.pos = FailPosition(api.fails, api.n)
    /\ api' = [api EXCEPT
                 !.pc = "handler",
                 !.task = [state |-> "FAILURE",
                           info |-> [error |-> api.fails,
                                     error_type |-> "Exception"]]]
    /\ UNCHANGED <<mst, job, sc, cat, cls, det, bal, msk, rep, lod, stp, bus>>

\* the task function returns, from its try block or from its except block
WorkerReturn ==
    /\ \/ api.pc = "handler"
       \/ api.pc = "running" /\ api.pos = Len(ProgressUpdates(api.n))
    /\ api' = [api EXCEPT
                 !.pc = "returned",
                 !.task = [state |-> "SUCCESS",
                           info |-> IF api.pc = "handler"
                                    THEN failed_result(api.fails)
                                    ELSE complete_result(
                                             pipeline_report(api.measured),
                                             api.n)]]
    /\ UNCHANGED <<mst, job, sc, cat, cls, det, bal, msk, rep, lod, stp, bus>>

GetJobStatus ==
    \E outcome \in QueryOutcomes(api.task) :
        Serve("status", get_job_status(api.jobs, api.task, outcome))

GetDownloadUrl == Serve("download", get_download_url(api.jobs))

DeleteJob == Serve("delete", delete_job(api.jobs))

InitJobs ==
    /\ api = [pc |-> "idle", pos |-> 0, n |-> 0, fails |-> "never",
              measured |-> [lufs |-> 0, peak |-> 0],
              task |-> [state |-> "PENDING", info |-> <<>>],
              jobs |-> <<>>, log |-> <<>>]
    /\ mst = 0 /\ job = 0 /\ sc = 0 /\ cat = 0 /\ cls = 0 /\ det = 0
    /\ bal = 0 /\ msk = 0 /\ rep = 0 /\ lod = 0 /\ stp = 0 /\ bus = 0

NextJobs ==
    \/ SubmitJob
    \/ WorkerStart
    \/ WorkerUpdate
    \/ WorkerFail
    \/ WorkerReturn
    \/ GetJobStatus
    \/ GetDownloadUrl
    \/ DeleteJob

SpecJobs == InitJobs /\ [][NextJobs]_vars

\* the worker positions at which the processing of the job has raised
AfterFailure(entry) ==
    /\ api.fails # "never"
    /\ entry.worker \in {"handler", "returned"}

\* C26: a status poll served after the processing raised answers failed
\* with the error, and neither complete nor progress 100
C26_FailedJobReportedFailed ==
    \A i \in 1..Len(api.log) :
        (/\ api.log[i].endpoint = "status"
         /\ AfterFailure(api.log[i])) =>
            /\ api.log[i].code = 200
            /\ api.log[i].body.status = "failed"
            /\ "error" \in DOMAIN api.log[i].body
            /\ api.log[i].body.progress # 100

\* C27: over the polls of a job that does not fail the progress never
\* decreases, stays within 0..100, and is 100 only in answers given after
\* the task returned, with status complete
C27_ProgressMonotoneAndFullOnlyWhenComplete ==
    api.fails = "never" =>
        /\ \A i \in 1..Len(api.log) :
              (api.log[i].endpoint = "status" /\ api.log[i].code = 200) =>
                 /\ api.log[i].body.progress \in 0..100
                 /\ api.log[i].body.progress = 100 =>
                       /\ api.log[i].body.status = "complete"
                       /\ api.log[i].worker = "returned"
        /\ \A i, j \in 1..Len(api.log) :
              (/\ i < j
               /\ api.log[i].endpoint = "status" /\ api.log[i].code = 200
               /\ api.log[j].endpoint = "status" /\ api.log[j].code = 200) =>
                 api.log[i].body.progress <= api.log[j].body.progress

\* C28: a delete request for a known job is answered with success, and
\* every later request for the job is answered not found
C28_DeleteRemovesTheJob ==
    \A i \in 1..Len(api.log) :
        (api.log[i].endpoint = "delete" /\ api.log[i].known) =>
            /\ api.log[i].code = 200
            /\ \A j \in (i + 1)..Len(api.log) : api.log[j].code = 404

\* C29: the report summary of a job that completed carries the loudness
\* and the true peak measured for its master
C29_SummaryCarriesMeasuredValues ==
    (/\ api.pc = "returned"
     /\ api.task.info.status = "complete") =>
        /\ api.task.info.report_summary.final_lufs = api.measured.lufs
        /\ api.task.info.report_summary.true_peak_dbTP = api.measured.peak

(***************************************************************************)
(* The gain of the limiter stages.                                         *)
(***************************************************************************)
RECURSIVE StageGainsFrom(_, _, _, _)
\* the gain reduction _calculate_gain_reduction returns in each stage of
\* multi_stage_limit from stage i on, a being the input of stage i
StageGainsFrom(a, ceilings, release_ms, i) ==
    IF i >= Len(ceilings) THEN <<>>
    ELSE <<CalculateGainReduction(
               PeakSignal([L |-> PadEdge(a.L, MsToSamples(50)),
                           R |-> PadEdge(a.R, MsToSamples(50))]),
               DbToLin(ceilings[i + 1] - 30), DbToLin(ceilings[i + 1]),
               ReleaseSamples(release_ms, i))>>
         \o StageGainsFrom(
                LimiterProcess(a, ceilings[i + 1], ceilings[i + 1] - 30,
                               ReleaseSamples(release_ms, i)),
                ceilings, release_ms, i + 1)

\* C30: in a run of multi_stage_limit the gain of every stage is at most 1
\* at every sample, and no sample leaves the limiter with a larger
\* magnitude than it entered with
C30_LimiterNeverAmplifies ==
    [][ProLimit =>
          /\ LET stage_gains == StageGainsFrom(mst.audio,
                                     StageCeilings(mst.ceiling_db),
                                     mst.release_ms, 0)
             IN  \A i \in 1..Len(stage_gains) :
                    \A k \in 1..Len(stage_gains[i]) :
                       stage_gains[i][k] <= One
          /\ \A k \in 1..Len(mst.audio.L) :
                /\ Abs(mst'.audio.L[k]) <= Abs(mst.audio.L[k])
                /\ Abs(mst'.audio.R[k]) <= Abs(mst.audio.R[k])]_vars

=============================================================================
